---- MODULE Spec2Model ----
(***************************************************************************)
(* Tube Poker engine: the Hold-Type (HT) registry, the tube payout         *)
(* strategies, the house ledger, the game orchestrator and the AI          *)
(* balancing loop, as state machines over the values the code computes.    *)
(*                                                                         *)
(* Units.  Credits, balances and payouts are whole numbers.  House edge,   *)
(* EVs, bustPenaltyMultiplier and the objective's weights are held in      *)
(* hundredths (0.05 is 5, 1.0 is 100); tube drain rates in quarters        *)
(* (0.25 is 1, 1.0 is 4); a score in ten-thousandths.                      *)
(***************************************************************************)
EXTENDS Integers, Sequences, FiniteSets, TLC

VARIABLES
    enabled,      \* HTRegistryClass.rules: rule id -> its enabled flag
    stats,        \* HTRegistryClass.stats: rule id -> HTStats
    lastOp,       \* the operation that ran last
    cards,        \* the argument of the last decide call
    args,         \* the arguments (and the state before) of the last call
    ret,          \* the value the last operation returned
    ledger,       \* GameOrchestratorState.houseLedger
    config,       \* GameOrchestratorState.config
    currentRound, \* GameOrchestratorState.currentRound: <<>> is null
    roundNumber,  \* GameOrchestrator.roundNumber
    isRunning,    \* GameOrchestratorState.isRunning
    roundHistory, \* GameOrchestratorState.roundHistory
    opt           \* the locals of AIBalancingEngine.optimize

registryVars == <<enabled, stats>>
callVars == <<lastOp, cards, args, ret>>
gameVars == <<ledger, config, currentRound, roundNumber, isRunning, roundHistory>>
vars == <<enabled, stats, lastOp, cards, args, ret, ledger, config,
          currentRound, roundNumber, isRunning, roundHistory, opt>>

\* ------------------------------------------------------------------------
\* Engine types (engine/types)
\* ------------------------------------------------------------------------

\* The keys of TubeBalances in declaration order.
TubeOrder == <<"ST", "FL", "FH", "SF", "RF">>
Tubes == { TubeOrder[i] : i \in 1..Len(TubeOrder) }

DEFAULT_ENGINE_CONFIG ==
    [playerCount |-> 4, ante |-> 5,
     dealerDrawAllowed |-> TRUE, dealerBustAllowed |-> TRUE,
     dealerWinsOnTie |-> FALSE, dealerAggression |-> 50,
     bustPenaltyMultiplier |-> 100,
     tubes |-> [t \in Tubes |->
                 CASE t = "ST" -> [initial |-> 5, max |-> 10]
                   [] t = "FL" -> [initial |-> 10, max |-> 20]
                   [] t = "FH" -> [initial |-> 15, max |-> 30]
                   [] t = "SF" -> [initial |-> 20, max |-> 40]
                   [] t = "RF" -> [initial |-> 25, max |-> 50]],
     payoutStrategy |-> "fixed",
     playerRefillsOnWin |-> TRUE, houseRefillsOnEmpty |-> TRUE,
     refillAmount |-> 1,
     autoRefillThreshold |-> 2, bonusPayoutThreshold |-> 40]

\* ParticipantOutcome, TubePayoutRecord, BustPenaltyRecord (timestamps are
\* not kept).
Outcome(pid, kind, rank, payout, tubePayout, bustPenalty) ==
    [participantId |-> pid, outcome |-> kind, handRank |-> rank,
     payout |-> payout, tubePayout |-> tubePayout, bustPenalty |-> bustPenalty]
TubePayoutRecord(tube, amount, pid) ==
    [tubeType |-> tube, amount |-> amount, participantId |-> pid]
BustPenaltyRecord(pid, amount, tube) ==
    [participantId |-> pid, amount |-> amount, reason |-> tube]


\* ------------------------------------------------------------------------
\* Numbers (the IEEE 754 doubles of the language)
\* ------------------------------------------------------------------------

\* Natural numbers of any size: limbs to the base 2^15, the least
\* significant first, no leading zero limb; <<>> is zero.
LimbBits == 3 * 5
LimbBase == 2^LimbBits

RECURSIVE NatLimbs(_)
NatLimbs(n) ==
    IF n = 0 THEN <<>> ELSE <<n % LimbBase>> \o NatLimbs(n \div LimbBase)

RECURSIVE TrimN(_)
TrimN(a) ==
    IF a = <<>> THEN a
    ELSE IF a[Len(a)] = 0 THEN TrimN(SubSeq(a, 1, Len(a) - 1)) ELSE a

Limb(a, i) == IF i <= Len(a) THEN a[i] ELSE 0

RECURSIVE AddCarry(_, _, _, _)
AddCarry(a, b, i, c) ==
    IF i > Len(a) /\ i > Len(b) THEN (IF c = 0 THEN <<>> ELSE <<c>>)
    ELSE LET s == Limb(a, i) + Limb(b, i) + c
         IN  <<s % LimbBase>> \o AddCarry(a, b, i + 1, s \div LimbBase)

AddN(a, b) == AddCarry(a, b, 1, 0)

RECURSIVE SubBorrow(_, _, _, _)
SubBorrow(a, b, i, c) ==
    IF i > Len(a) THEN <<>>
    ELSE LET d == Limb(a, i) - Limb(b, i) - c
         IN  <<IF d < 0 THEN d + LimbBase ELSE d>>
                 \o SubBorrow(a, b, i + 1, IF d < 0 THEN 1 ELSE 0)

\* a - b for a >= b.
SubN(a, b) == TrimN(SubBorrow(a, b, 1, 0))

RECURSIVE CmpFrom(_, _, _)
CmpFrom(a, b, i) ==
    IF i = 0 THEN 0
    ELSE IF a[i] # b[i] THEN (IF a[i] < b[i] THEN -1 ELSE 1)
    ELSE CmpFrom(a, b, i - 1)

\* -1, 0 or 1 as a is below, equal to or above b.
CmpN(a, b) ==
    IF Len(a) # Len(b) THEN (IF Len(a) < Len(b) THEN -1 ELSE 1)
    ELSE CmpFrom(a, b, Len(a))

RECURSIVE MulSmallCarry(_, _, _, _)
MulSmallCarry(a, k, i, c) ==
    IF i > Len(a) THEN (IF c = 0 THEN <<>> ELSE <<c>>)
    ELSE LET p == a[i] * k + c
         IN  <<p % LimbBase>> \o MulSmallCarry(a, k, i + 1, p \div LimbBase)

\* a * k for 0 <= k < LimbBase.
MulSmall(a, k) == IF k = 0 THEN <<>> ELSE MulSmallCarry(a, k, 1, 0)

RECURSIVE MulN(_, _)
MulN(a, b) ==
    IF a = <<>> \/ b = <<>> THEN <<>>
    ELSE LET rest == MulN(a, Tail(b))
         IN  AddN(MulSmall(a, b[1]), IF rest = <<>> THEN <<>> ELSE <<0>> \o rest)

RECURSIVE DivSmallFrom(_, _, _, _)
DivSmallFrom(a, k, i, r) ==
    IF i = 0 THEN [q |-> <<>>, r |-> r]
    ELSE LET cur == r * LimbBase + a[i]
             rest == DivSmallFrom(a, k, i - 1, cur % k)
         IN  [q |-> Append(rest.q, cur \div k), r |-> rest.r]

\* Quotient and remainder of a by k, 0 < k <= LimbBase.
DivSmall(a, k) ==
    LET d == DivSmallFrom(a, k, Len(a), 0) IN [q |-> TrimN(d.q), r |-> d.r]

RECURSIVE BitLenInt(_)
BitLenInt(v) == IF v = 0 THEN 0 ELSE 1 + BitLenInt(v \div 2)

\* The number of binary digits of a.
BitLen(a) ==
    IF a = <<>> THEN 0 ELSE LimbBits * (Len(a) - 1) + BitLenInt(a[Len(a)])

\* a * 2^k and floor(a / 2^k).
ShiftLeft(a, k) ==
    IF a = <<>> THEN <<>>
    ELSE [i \in 1..(k \div LimbBits) |-> 0] \o MulSmall(a, 2^(k % LimbBits))

ShiftRight(a, k) ==
    IF k \div LimbBits >= Len(a) THEN <<>>
    ELSE DivSmall(SubSeq(a, (k \div LimbBits) + 1, Len(a)), 2^(k % LimbBits)).q

IsOdd(a) == a # <<>> /\ a[1] % 2 = 1

\* Long division, one binary digit of the quotient at a time: the digits
\* i down to lo, then the next group of digits on the remainder.
RECURSIVE DivBits(_, _, _, _)
DivBits(r, b, i, lo) ==
    IF i < lo THEN [q |-> <<>>, r |-> r]
    ELSE LET t == ShiftLeft(b, i)
             ge == CmpN(t, r) <= 0
             rest == DivBits(IF ge THEN SubN(r, t) ELSE r, b, i - 1, lo)
         IN  [q |-> IF ge THEN AddN(rest.q, ShiftLeft(<<1>>, i)) ELSE rest.q,
              r |-> rest.r]

RECURSIVE DivGroups(_, _, _)
DivGroups(r, b, i) ==
    IF i < 0 THEN [q |-> <<>>, r |-> r]
    ELSE LET lo == IF i < LimbBits THEN 0 ELSE i - LimbBits + 1
             group == DivBits(r, b, i, lo)
             rest == DivGroups(group.r, b, lo - 1)
         IN  [q |-> AddN(group.q, rest.q), r |-> rest.r]

\* Quotient and remainder of a by b, b # 0.
DivN(a, b) == DivGroups(a, b, BitLen(a) - BitLen(b))

\* The integer square root, one binary digit at a time, in the same groups.
RECURSIVE SqrtBits(_, _, _, _)
SqrtBits(n, i, lo, r) ==
    IF i < lo THEN r
    ELSE LET cand == AddN(r, ShiftLeft(<<1>>, i))
         IN  IF CmpN(MulN(cand, cand), n) <= 0
             THEN SqrtBits(n, i - 1, lo, cand)
             ELSE SqrtBits(n, i - 1, lo, r)

RECURSIVE SqrtGroups(_, _, _)
SqrtGroups(n, i, r) ==
    IF i < 0 THEN r
    ELSE LET lo == IF i < LimbBits THEN 0 ELSE i - LimbBits + 1
         IN  SqrtGroups(n, lo - 1, SqrtBits(n, i, lo, r))

ISqrtN(n) == SqrtGroups(n, (BitLen(n) + 1) \div 2, <<>>)

\* A double is man * 2^exp with a significand of exactly 53 binary digits
\* (the 52 stored ones and the implicit leading one), negated if neg; zero
\* has an empty significand. No number here is near the subnormal or the
\* overflow range. NaN is the result of 0 / 0.
Precision == 52 + 1
FZero == [nan |-> FALSE, neg |-> FALSE, man |-> <<>>, exp |-> 0]
FNaN == [nan |-> TRUE, neg |-> FALSE, man |-> <<>>, exp |-> 0]
IsZero(x) == ~x.nan /\ x.man = <<>>

\* m * 2^e, exactly representable, in the form above.
Normal(neg, m, e) ==
    IF m = <<>> THEN FZero
    ELSE LET n == BitLen(m)
         IN  IF n <= Precision
             THEN [nan |-> FALSE, neg |-> neg,
                   man |-> ShiftLeft(m, Precision - n),
                   exp |-> e - (Precision - n)]
             ELSE [nan |-> FALSE, neg |-> neg,
                   man |-> ShiftRight(m, n - Precision),
                   exp |-> e + (n - Precision)]

\* Round to nearest, ties to even: the double nearest to a value whose
\* leading digits are m * 2^e; sticky tells that non-zero digits follow
\* below m (m then has more than Precision + 1 digits).
RoundNearest(neg, m, e, sticky) ==
    LET n == BitLen(m)
        k == n - Precision
    IN  IF k <= 0 THEN Normal(neg, m, e)
        ELSE LET kept == ShiftRight(m, k)
                 rem == SubN(m, ShiftLeft(kept, k))
                 c == CmpN(rem, ShiftLeft(<<1>>, k - 1))
                 up == c > 0 \/ (c = 0 /\ (sticky \/ IsOdd(kept)))
             IN  Normal(neg, IF up THEN AddN(kept, <<1>>) ELSE kept, e + k)

FNeg(x) == IF x.nan \/ x.man = <<>> THEN x ELSE [x EXCEPT !.neg = ~x.neg]

\* x + y
FAdd(x, y) ==
    IF x.nan \/ y.nan THEN FNaN
    ELSE IF x.man = <<>> THEN y
    ELSE IF y.man = <<>> THEN x
    ELSE LET e == IF x.exp < y.exp THEN x.exp ELSE y.exp
             a == ShiftLeft(x.man, x.exp - e)
             b == ShiftLeft(y.man, y.exp - e)
         IN  IF x.neg = y.neg THEN RoundNearest(x.neg, AddN(a, b), e, FALSE)
             ELSE IF CmpN(a, b) = 0 THEN FZero
             ELSE IF CmpN(a, b) > 0
                  THEN RoundNearest(x.neg, SubN(a, b), e, FALSE)
                  ELSE RoundNearest(y.neg, SubN(b, a), e, FALSE)

\* x - y
FSub(x, y) == FAdd(x, FNeg(y))

\* x * y
FMul(x, y) ==
    IF x.nan \/ y.nan THEN FNaN
    ELSE IF x.man = <<>> \/ y.man = <<>> THEN FZero
    ELSE RoundNearest(x.neg # y.neg, MulN(x.man, y.man), x.exp + y.exp, FALSE)

\* x / y for y # 0, and 0 / 0.
FDiv(x, y) ==
    IF x.nan \/ y.nan \/ y.man = <<>> THEN FNaN
    ELSE IF x.man = <<>> THEN FZero
    ELSE LET d == DivN(ShiftLeft(x.man, Precision + 4), y.man)
         IN  RoundNearest(x.neg # y.neg, d.q,
                          x.exp - (Precision + 4) - y.exp, d.r # <<>>)

\* Math.sqrt(x) for x >= 0.
FSqrt(x) ==
    IF x.nan \/ x.neg THEN FNaN
    ELSE IF x.man = <<>> THEN FZero
    ELSE LET t == Precision + 4 + ((x.exp + Precision) % 2)
             n == ShiftLeft(x.man, t)
             r == ISqrtN(n)
         IN  RoundNearest(FALSE, r, (x.exp - t) \div 2, MulN(r, r) # n)

\* x < y; false when either is NaN.
FLess(x, y) ==
    IF x.nan \/ y.nan THEN FALSE
    ELSE LET d == FSub(x, y) IN d.man # <<>> /\ d.neg

\* The double of an integer, and of the decimal literal a / b.
FromInt(n) == Normal(n < 0, NatLimbs(IF n < 0 THEN -n ELSE n), 0)
Dec(a, b) == FDiv(FromInt(a), FromInt(b))
\* ------------------------------------------------------------------------
\* Cards and the hand classifier (utils/deck, utils/handEvaluator)
\* ------------------------------------------------------------------------

\* Ranks are 2..10, J = 11, Q = 12, K = 13, A = 14.
Card(r, s) == [rank |-> r, suit |-> s]

\* The cards hands are dealt from: enough of the 52 to form every hand rank
\* (royal flush down to an unclassified hand without A or K), with made
\* hands that contain 4-card draws.
Deck ==
    << Card(9, "s"), Card(14, "s"), Card(9, "h"), Card(10, "s"),
       Card(2, "h"), Card(11, "s"), Card(9, "d"), Card(12, "s"),
       Card(10, "h"), Card(13, "s"), Card(9, "c") >>

\* Every 5-card hand of the deck, the cards in deck order.
Hands ==
    { <<Deck[a], Deck[b], Deck[c], Deck[d], Deck[e]>> :
        <<a, b, c, d, e>> \in
            { t \in (1..Len(Deck)) \X (1..Len(Deck)) \X (1..Len(Deck))
                        \X (1..Len(Deck)) \X (1..Len(Deck)) :
                t[1] < t[2] /\ t[2] < t[3] /\ t[3] < t[4] /\ t[4] < t[5] } }

\* Positions of a hand, 0-based as in the code.
Positions(cs) == 0 .. (Len(cs) - 1)
At(cs, i) == cs[i + 1]

RanksOf(cs) == { At(cs, i).rank : i \in Positions(cs) }
SuitsOf(cs) == { At(cs, i).suit : i \in Positions(cs) }
CountRank(cs, r) == Cardinality({ i \in Positions(cs) : At(cs, i).rank = r })
MaxOf(S) == CHOOSE x \in S : \A y \in S : y <= x
MinOf(S) == CHOOSE x \in S : \A y \in S : x <= y

IsFlush(cs) == Cardinality(SuitsOf(cs)) = 1
IsStraight(cs) ==
    /\ Cardinality(RanksOf(cs)) = 5
    /\ \/ MaxOf(RanksOf(cs)) - MinOf(RanksOf(cs)) = 4
       \/ RanksOf(cs) = {14, 2, 3, 4, 5}

\* The standard 5-card poker ranking.
RankOf(cs) ==
    LET counts == { CountRank(cs, r) : r \in RanksOf(cs) }
        pairs  == Cardinality({ r \in RanksOf(cs) : CountRank(cs, r) = 2 })
    IN  IF IsFlush(cs) /\ IsStraight(cs) /\ MinOf(RanksOf(cs)) = 10
            THEN "royal-flush"
        ELSE IF IsFlush(cs) /\ IsStraight(cs) THEN "straight-flush"
        ELSE IF 4 \in counts THEN "four-of-a-kind"
        ELSE IF 3 \in counts /\ 2 \in counts THEN "full-house"
        ELSE IF IsFlush(cs) THEN "flush"
        ELSE IF IsStraight(cs) THEN "straight"
        ELSE IF 3 \in counts THEN "three-of-a-kind"
        ELSE IF pairs = 2 THEN "two-pair"
        ELSE IF pairs = 1 THEN "pair"
        ELSE "high-card"

\* The positions of S in ascending order, as a sequence.
RECURSIVE SeqOfSet(_)
SeqOfSet(S) ==
    IF S = {} THEN <<>> ELSE <<MinOf(S)>> \o SeqOfSet(S \ {MinOf(S)})

\* A matcher's result: null, or the positions to hold.
Null == [isNull |-> TRUE, hold |-> <<>>]
Hold(h) == [isNull |-> FALSE, hold |-> h]

\* Four (or more) cards of one suit; cardsToHold is
\* the first four positions of that suit.
FlushDrawOf(cs) ==
    LET suited(s) == { i \in Positions(cs) : At(cs, i).suit = s }
        hit == { s \in SuitsOf(cs) : Cardinality(suited(s)) >= 4 }
    IN  IF hit = {} THEN [hasFlushDraw |-> FALSE, cardsToHold |-> <<>>]
        ELSE [hasFlushDraw |-> TRUE,
              cardsToHold |-> SubSeq(SeqOfSet(suited(CHOOSE s \in hit : TRUE)), 1, 4)]

\* Four cards of four consecutive ranks;
\* cardsToHold is the positions of one such run (the one leaving out the
\* latest position).
StraightDrawOf(cs) ==
    LET runs == { S \in SUBSET Positions(cs) :
                    /\ Cardinality(S) = 4
                    /\ Cardinality({ At(cs, i).rank : i \in S }) = 4
                    /\ MaxOf({ At(cs, i).rank : i \in S })
                         - MinOf({ At(cs, i).rank : i \in S }) = 3 }
        left(S) == CHOOSE i \in Positions(cs) : i \notin S
    IN  IF runs = {} THEN [hasStraightDraw |-> FALSE, cardsToHold |-> <<>>]
        ELSE [hasStraightDraw |-> TRUE,
              cardsToHold |-> SeqOfSet(CHOOSE S \in runs :
                                  \A T \in runs : left(T) <= left(S))]

\* The classifier's answers for the hands of the deck, computed once.
HandTable ==
    [cs \in Hands |-> [rank |-> RankOf(cs), flushDraw |-> FlushDrawOf(cs),
                       straightDraw |-> StraightDrawOf(cs)]]

\* evaluateHand(cards).rank
evaluateHand(cs) ==
    IF cs \in DOMAIN HandTable THEN HandTable[cs].rank ELSE RankOf(cs)

\* has4CardFlushDraw(cards)
has4CardFlushDraw(cs) ==
    IF cs \in DOMAIN HandTable THEN HandTable[cs].flushDraw ELSE FlushDrawOf(cs)

\* has4CardStraightDraw(cards)
has4CardStraightDraw(cs) ==
    IF cs \in DOMAIN HandTable THEN HandTable[cs].straightDraw
    ELSE StraightDrawOf(cs)

\* ------------------------------------------------------------------------
\* HT registry (engine/htRegistry)
\* ------------------------------------------------------------------------

\* registerDefaultRules: the rule ids in registration order.
RuleOrder ==
    << "H5.RF", "H5.SF", "H5.4K", "H5.FH", "H5.FL", "H5.ST", "H4.4FL",
       "H4.4ST", "H3.3K", "H2.2P", "H2.1P", "H1.HC", "H0.DRAW5" >>
RuleIds == { RuleOrder[i] : i \in 1..Len(RuleOrder) }

\* An id setEnabled may be called with that is no registered rule.
UnknownId == "HX.NONE"

Priority(id) ==
    CASE id = "H5.RF" -> 100 [] id = "H5.SF" -> 99 [] id = "H5.4K" -> 98
      [] id = "H5.FH" -> 97  [] id = "H5.FL" -> 96 [] id = "H5.ST" -> 95
      [] id = "H4.4FL" -> 85 [] id = "H4.4ST" -> 80 [] id = "H3.3K" -> 75
      [] id = "H2.2P" -> 70  [] id = "H2.1P" -> 65 [] id = "H1.HC" -> 50
      [] id = "H0.DRAW5" -> 0

Category(id) == SubSeq(id, 1, 2)

BustPotential(id) == id \in {"H4.4FL", "H4.4ST", "H1.HC", "H0.DRAW5"}

AllFive == <<0, 1, 2, 3, 4>>

\* Object.values(groups) of findNOfAKind / findTwoPairs: the hand's ranks in
\* JavaScript property order, integer-like keys ('2'..'10') ascending first,
\* then the other keys ('J','Q','K','A') in order of first appearance.
RECURSIVE FacesInOrder(_, _, _)
FacesInOrder(cs, i, seen) ==
    IF i > Len(cs) THEN <<>>
    ELSE IF cs[i].rank > 10 /\ cs[i].rank \notin seen
         THEN <<cs[i].rank>> \o FacesInOrder(cs, i + 1, seen \cup {cs[i].rank})
         ELSE FacesInOrder(cs, i + 1, seen)
GroupKeys(cs) ==
    SeqOfSet({ r \in RanksOf(cs) : r <= 10 }) \o FacesInOrder(cs, 1, {})
Group(cs, r) == SeqOfSet({ i \in Positions(cs) : At(cs, i).rank = r })

findNOfAKind(cs, n) ==
    LET keys == GroupKeys(cs)
        hits == { k \in 1..Len(keys) : Len(Group(cs, keys[k])) = n }
    IN  IF hits = {} THEN Null ELSE Hold(Group(cs, keys[MinOf(hits)]))

\* findTwoPairs returning the first of the two pairs only.
findTwoPairsFirstOnly(cs) ==
    LET keys == GroupKeys(cs)
        hits == { k \in 1..Len(keys) : Len(Group(cs, keys[k])) = 2 }
    IN  IF Cardinality(hits) >= 2
        THEN Hold(Group(cs, keys[MinOf(hits)]))
        ELSE Null

findTwoPairs(cs) ==
    LET keys == GroupKeys(cs)
        hits == { k \in 1..Len(keys) : Len(Group(cs, keys[k])) = 2 }
    IN  IF Cardinality(hits) >= 2
        THEN Hold(Group(cs, keys[MinOf(hits)])
                    \o Group(cs, keys[MinOf(hits \ {MinOf(hits)})]))
        ELSE Null

\* rule.matcher(cards, handResult) of each default rule.
Matcher(id, cs, rank) ==
    CASE id = "H5.RF" -> IF rank = "royal-flush" THEN Hold(AllFive) ELSE Null
      [] id = "H5.SF" -> IF rank = "straight-flush" THEN Hold(AllFive) ELSE Null
      [] id = "H5.4K" -> IF rank = "four-of-a-kind" THEN Hold(AllFive) ELSE Null
      [] id = "H5.FH" -> IF rank = "full-house" THEN Hold(AllFive) ELSE Null
      [] id = "H5.FL" -> IF rank = "flush" THEN Hold(AllFive) ELSE Null
      [] id = "H5.ST" -> IF rank = "straight" THEN Hold(AllFive) ELSE Null
      [] id = "H4.4FL" ->
            IF has4CardFlushDraw(cs).hasFlushDraw
            THEN Hold(has4CardFlushDraw(cs).cardsToHold) ELSE Null
      [] id = "H4.4ST" ->
            IF has4CardStraightDraw(cs).hasStraightDraw
            THEN Hold(has4CardStraightDraw(cs).cardsToHold) ELSE Null
      [] id = "H3.3K" ->
            IF rank # "three-of-a-kind" THEN Null ELSE findNOfAKind(cs, 3)
      [] id = "H2.2P" ->
            IF rank # "two-pair" THEN Null ELSE findTwoPairs(cs)
      [] id = "H2.1P" ->
            IF rank # "pair" THEN Null ELSE findNOfAKind(cs, 2)
      [] id = "H1.HC" ->
            LET high == { i \in Positions(cs) : At(cs, i).rank \in {13, 14} }
            IN  IF rank # "high-card" \/ high = {} THEN Null
                ELSE Hold(<<MinOf(high)>>)
      [] id = "H0.DRAW5" -> Hold(<<>>)

\* setEnabled(htId, enabled): a no-op for an id that is not registered.
setEnabled(en, htId, b) ==
    IF htId \in DOMAIN en THEN [en EXCEPT ![htId] = b] ELSE en

\* Array.prototype.sort with (a, b) => b.priority - a.priority: a stable
\* sort into descending priority, here by insertion.
RECURSIVE InsertDesc(_, _)
InsertDesc(sorted, id) ==
    IF sorted = <<>> THEN <<id>>
    ELSE IF Priority(Head(sorted)) >= Priority(id)
         THEN <<Head(sorted)>> \o InsertDesc(Tail(sorted), id)
         ELSE <<id>> \o sorted
RECURSIVE SortDesc(_)
SortDesc(ids) ==
    IF ids = <<>> THEN <<>>
    ELSE InsertDesc(SortDesc(SubSeq(ids, 1, Len(ids) - 1)), ids[Len(ids)])

\* The ascending sort a comparator written a.priority - b.priority gives.
getAllRulesAscending(en) ==
    LET RECURSIVE Rev(_)
        Rev(q) == IF q = <<>> THEN <<>> ELSE Rev(Tail(q)) \o <<Head(q)>>
    IN  Rev(SortDesc(SelectSeq(RuleOrder, LAMBDA id : en[id])))

\* getAllRules(): the enabled rules, highest priority first.
getAllRules(en) ==
    SortDesc(SelectSeq(RuleOrder, LAMBDA id : en[id]))

\* What an operation returned, and the arguments of a call that has none.
NoArgs == [fn |-> "none"]
Void == [kind |-> "void"]
Threw == [kind |-> "threw"]
NullDecision == [kind |-> "null"]
Decision(id, hold) ==
    [kind |-> "decision", htId |-> id, category |-> Category(id),
     cardsToHold |-> hold, bustPotential |-> BustPotential(id)]

\* The loop of decide: the first rule of the list whose matcher is not null.
RECURSIVE FirstMatch(_, _, _)
FirstMatch(rules, cs, rank) ==
    IF rules = <<>> THEN NullDecision
    ELSE IF ~Matcher(Head(rules), cs, rank).isNull
         THEN Decision(Head(rules), Matcher(Head(rules), cs, rank).hold)
         ELSE FirstMatch(Tail(rules), cs, rank)

\* decide with the loop's fall-through returning nothing.
decideWithoutFallback(en, cs) ==
    IF Len(cs) # 5 THEN Threw
    ELSE FirstMatch(getAllRules(en), cs, evaluateHand(cs))

\* decide answering a malformed hand with the fallback decision.
decideLenient(en, cs) ==
    IF Len(cs) # 5 THEN Decision("H0.DRAW5", <<>>)
    ELSE LET found == FirstMatch(getAllRules(en), cs, evaluateHand(cs))
         IN  IF found.kind = "decision" THEN found
             ELSE Decision("H0.DRAW5", <<>>)

\* decide(cards)
decide(en, cs) ==
    IF Len(cs) # 5 THEN Threw
    ELSE LET found == FirstMatch(getAllRules(en), cs, evaluateHand(cs))
         IN  IF found.kind = "decision" THEN found
             ELSE Decision("H0.DRAW5", <<>>)


\* createEmptyStats(); calculatedEV is kept as the fraction num / den.
createEmptyStats ==
    [usageCount |-> 0, winCount |-> 0, lossCount |-> 0, bustCount |-> 0,
     totalWon |-> 0, totalWagered |-> 0,
     tubeHits |-> [t \in Tubes |-> 0],
     calculatedEV |-> [num |-> 0, den |-> 1]]

\* resetStats()
resetStats(st) == [id \in DOMAIN st |-> createEmptyStats]

\* recordOutcome counting the usage of winning outcomes only.
recordOutcomeWinsOnly(st, htId, outcome, wagered, won, tubeType) ==
    IF htId \notin DOMAIN st THEN st
    ELSE LET s == st[htId]
             totalWagered == s.totalWagered + wagered
             totalWon == s.totalWon + won
         IN  [st EXCEPT ![htId] =
                [usageCount |-> s.usageCount + (IF outcome = "win" THEN 1 ELSE 0),
                 winCount |-> s.winCount + (IF outcome = "win" THEN 1 ELSE 0),
                 lossCount |-> s.lossCount + (IF outcome = "lose" THEN 1 ELSE 0),
                 bustCount |-> s.bustCount + (IF outcome = "bust" THEN 1 ELSE 0),
                 totalWon |-> totalWon,
                 totalWagered |-> totalWagered,
                 tubeHits |-> IF tubeType \in DOMAIN s.tubeHits
                              THEN [s.tubeHits EXCEPT ![tubeType] = @ + 1]
                              ELSE s.tubeHits,
                 calculatedEV |-> IF totalWagered > 0
                                  THEN [num |-> totalWon - totalWagered,
                                        den |-> totalWagered]
                                  ELSE s.calculatedEV]]

\* recordOutcome without the branch for a bust.
recordOutcomeBustUncounted(st, htId, outcome, wagered, won, tubeType) ==
    IF htId \notin DOMAIN st THEN st
    ELSE LET s == st[htId]
             totalWagered == s.totalWagered + wagered
             totalWon == s.totalWon + won
         IN  [st EXCEPT ![htId] =
                [usageCount |-> s.usageCount + 1,
                 winCount |-> s.winCount + (IF outcome = "win" THEN 1 ELSE 0),
                 lossCount |-> s.lossCount + (IF outcome = "lose" THEN 1 ELSE 0),
                 bustCount |-> s.bustCount,
                 totalWon |-> totalWon,
                 totalWagered |-> totalWagered,
                 tubeHits |-> IF tubeType \in DOMAIN s.tubeHits
                              THEN [s.tubeHits EXCEPT ![tubeType] = @ + 1]
                              ELSE s.tubeHits,
                 calculatedEV |-> IF totalWagered > 0
                                  THEN [num |-> totalWon - totalWagered,
                                        den |-> totalWagered]
                                  ELSE s.calculatedEV]]

\* recordOutcome(htId, outcome, wagered, won, tubeType); a tubeType of
\* "none" is undefined.
recordOutcome(st, htId, outcome, wagered, won, tubeType) ==
    IF htId \notin DOMAIN st THEN st
    ELSE LET s == st[htId]
             totalWagered == s.totalWagered + wagered
             totalWon == s.totalWon + won
         IN  [st EXCEPT ![htId] =
                [usageCount |-> s.usageCount + 1,
                 winCount |-> s.winCount + (IF outcome = "win" THEN 1 ELSE 0),
                 lossCount |-> s.lossCount + (IF outcome = "lose" THEN 1 ELSE 0),
                 bustCount |-> s.bustCount + (IF outcome = "bust" THEN 1 ELSE 0),
                 totalWon |-> totalWon,
                 totalWagered |-> totalWagered,
                 tubeHits |-> IF tubeType \in DOMAIN s.tubeHits
                              THEN [s.tubeHits EXCEPT ![tubeType] = @ + 1]
                              ELSE s.tubeHits,
                 calculatedEV |-> IF totalWagered > 0
                                  THEN [num |-> totalWon - totalWagered,
                                        den |-> totalWagered]
                                  ELSE s.calculatedEV]]


\* The double recordOutcome stored in calculatedEV.
StoredEV(s) == Dec(s.calculatedEV.num, s.calculatedEV.den)

\* exploits.sort((a, b) => b.ev - a.ev): a stable sort into descending EV.
RECURSIVE InsertByEV(_, _)
InsertByEV(sorted, e) ==
    IF sorted = <<>> THEN <<e>>
    ELSE IF FLess(Dec(Head(sorted).ev.num, Head(sorted).ev.den),
                  Dec(e.ev.num, e.ev.den))
         THEN <<e>> \o sorted
         ELSE <<Head(sorted)>> \o InsertByEV(Tail(sorted), e)

RECURSIVE SortByEV(_)
SortByEV(exploits) ==
    IF exploits = <<>> THEN <<>>
    ELSE InsertByEV(SortByEV(SubSeq(exploits, 1, Len(exploits) - 1)),
                    exploits[Len(exploits)])

\* getExploitableHTs admitting a rule at its 100th use.
getExploitableHTsFrom100(st, threshold) ==
    LET ids == SelectSeq(RuleOrder, LAMBDA id :
                    st[id].usageCount >= 100 /\ FLess(threshold, StoredEV(st[id])))
    IN  SortByEV([k \in 1..Len(ids) |->
                    [htId |-> ids[k], ev |-> st[ids[k]].calculatedEV]])

\* getExploitableHTs(threshold); the statistics are visited in
\* registration order.
getExploitableHTs(st, threshold) ==
    LET ids == SelectSeq(RuleOrder, LAMBDA id :
                    st[id].usageCount > 100 /\ FLess(threshold, StoredEV(st[id])))
    IN  SortByEV([k \in 1..Len(ids) |->
                    [htId |-> ids[k], ev |-> st[ids[k]].calculatedEV]])
\* ------------------------------------------------------------------------
\* Payout strategies (engine/payoutStrategies)
\* ------------------------------------------------------------------------

\* A JavaScript number: a finite value, NaN or +Infinity.  Balances and
\* payouts are whole credits; the divisions below are exact real arithmetic.
Fin(v) == [kind |-> "finite", v |-> v]
NaN == [kind |-> "NaN", v |-> 0]
PosInf == [kind |-> "Infinity", v |-> 0]

\* Math.min(a, b) for b finite: NaN if a is NaN.
JsMin(a, b) ==
    CASE a.kind = "NaN" -> NaN
      [] a.kind = "Infinity" -> b
      [] OTHER -> IF a.v <= b.v THEN a ELSE b

\* a - b for a finite and b finite or NaN.
JsSub(a, b) == IF b.kind = "NaN" THEN NaN ELSE Fin(a.v - b.v)

\* a <= b for b finite: false if a is NaN.
JsLeq(a, b) == a.kind = "finite" /\ a.v <= b.v

Strategies == {"fixed", "percentage", "logarithmic", "progressive"}

\* Math.floor(Math.log(n) * 2) for a whole n >= 1: the j with
\* e^(j/2) <= n < e^((j+1)/2); e^(1/2), e, e^(3/2), ... lie strictly between
\* 1|2, 2|3, 4|5, 7|8, 12|13, 20|21, 33|34, 54|55, 90|91 and 148|149.
FloorTwoLn(n) ==
    CASE n <= 1 -> 0 [] n = 2 -> 1 [] n \in 3..4 -> 2 [] n \in 5..7 -> 3
      [] n \in 8..12 -> 4 [] n \in 13..20 -> 5 [] n \in 21..33 -> 6
      [] n \in 34..54 -> 7 [] n \in 55..90 -> 8 [] n \in 91..148 -> 9

\* fixedStrategy.calculate
fixedCalculate(tube) == Fin(tube.initial)

\* The percentage strategy rounding up.
percentageCalculateCeil(tube) == Fin((tube.current + 3) \div 4)

\* createPercentageStrategy(0.25).calculate: Math.floor(current * 0.25)
percentageCalculate(tube) == Fin(tube.current \div 4)

\* createLogarithmicStrategy(2).calculate
logarithmicCalculate(tube) ==
    IF tube.current <= 0 THEN Fin(0)
    ELSE Fin(2 + FloorTwoLn(tube.current + 1))

\* createProgressiveStrategy(0.5).calculate, for current > 0 and
\* initial, max >= 0.  fillRatio = current / max is +Infinity for max = 0,
\* the multiplier is then +Infinity, and initial * multiplier is NaN when
\* initial = 0.  Otherwise fillRatio > 0.5 iff 2 * current > max, and the
\* multiplier 1 + (fillRatio - 0.5) * 2 is 2 * current / max.
progressiveCalculate(tube) ==
    IF tube.max = 0
    THEN IF tube.initial = 0 THEN NaN ELSE PosInf
    ELSE IF 2 * tube.current > tube.max
         THEN Fin((tube.initial * 2 * tube.current) \div tube.max)
         ELSE Fin(tube.initial)

\* getPayoutStrategy(type).calculate(tube)
Calculate(type, tube) ==
    CASE type = "fixed" -> fixedCalculate(tube)
      [] type = "percentage" -> percentageCalculate(tube)
      [] type = "logarithmic" -> logarithmicCalculate(tube)
      [] type = "progressive" -> progressiveCalculate(tube)
      [] OTHER -> fixedCalculate(tube)

\* calculateTubePayout with the empty test written currentBalance < 0.
calculateTubePayoutStrictEmpty(currentBalance, initialBalance, maxBalance, type) ==
    IF currentBalance < 0
    THEN [payout |-> Fin(0), newBalance |-> Fin(0),
          wasEmpty |-> TRUE, triggersBust |-> TRUE]
    ELSE LET payout == Calculate(type, [current |-> currentBalance,
                           initial |-> initialBalance, max |-> maxBalance])
             actualPayout == JsMin(payout, Fin(currentBalance))
         IN  [payout |-> actualPayout,
              newBalance |-> JsSub(Fin(currentBalance), actualPayout),
              wasEmpty |-> FALSE, triggersBust |-> FALSE]

\* calculateTubePayout leaving the balance as it found it.
calculateTubePayoutKeepingBalance(currentBalance, initialBalance, maxBalance, type) ==
    IF currentBalance <= 0
    THEN [payout |-> Fin(0), newBalance |-> Fin(0),
          wasEmpty |-> TRUE, triggersBust |-> TRUE]
    ELSE LET payout == Calculate(type, [current |-> currentBalance,
                           initial |-> initialBalance, max |-> maxBalance])
             actualPayout == JsMin(payout, Fin(currentBalance))
         IN  [payout |-> actualPayout,
              newBalance |-> Fin(currentBalance),
              wasEmpty |-> FALSE, triggersBust |-> FALSE]

\* calculateTubePayout without the Math.min clamp.
calculateTubePayoutUnclamped(currentBalance, initialBalance, maxBalance, type) ==
    IF currentBalance <= 0
    THEN [payout |-> Fin(0), newBalance |-> Fin(0),
          wasEmpty |-> TRUE, triggersBust |-> TRUE]
    ELSE LET payout == Calculate(type, [current |-> currentBalance,
                           initial |-> initialBalance, max |-> maxBalance])
         IN  [payout |-> payout,
              newBalance |-> JsSub(Fin(currentBalance), payout),
              wasEmpty |-> FALSE, triggersBust |-> FALSE]

\* calculateTubePayout(tubeType, currentBalance, initialBalance, maxBalance,
\* strategy); tubeType is not read.
calculateTubePayout(currentBalance, initialBalance, maxBalance, type) ==
    IF currentBalance <= 0
    THEN [payout |-> Fin(0), newBalance |-> Fin(0),
          wasEmpty |-> TRUE, triggersBust |-> TRUE]
    ELSE LET payout == Calculate(type, [current |-> currentBalance,
                           initial |-> initialBalance, max |-> maxBalance])
             actualPayout == JsMin(payout, Fin(currentBalance))
         IN  [payout |-> actualPayout,
              newBalance |-> JsSub(Fin(currentBalance), actualPayout),
              wasEmpty |-> FALSE, triggersBust |-> FALSE]

\* ------------------------------------------------------------------------
\* House ledger (engine/houseLedger)
\* ------------------------------------------------------------------------

createHouseLedger ==
    [totalAnteCollected |-> 0, totalPayoutsGiven |-> 0,
     totalBustPenaltiesCollected |-> 0, totalTubePayouts |-> 0,
     netProfit |-> 0, roundsPlayed |-> 0,
     anteHistory |-> <<>>, payoutHistory |-> <<>>, bustHistory |-> <<>>]

updateNetProfit(l) ==
    [l EXCEPT !.netProfit = l.totalAnteCollected
                              + l.totalBustPenaltiesCollected
                              - l.totalPayoutsGiven]

recordAnteCollection(l, amount) ==
    updateNetProfit([l EXCEPT
        !.totalAnteCollected = l.totalAnteCollected + amount,
        !.anteHistory = Append(l.anteHistory, amount)])

recordPayout(l, amount) ==
    updateNetProfit([l EXCEPT
        !.totalPayoutsGiven = l.totalPayoutsGiven + amount,
        !.payoutHistory = Append(l.payoutHistory, amount)])

\* recordTubePayout counting the amount as a tube payout only.
recordTubePayoutTubeOnly(l, amount) ==
    updateNetProfit([l EXCEPT
        !.totalTubePayouts = l.totalTubePayouts + amount,
        !.payoutHistory = Append(l.payoutHistory, amount)])

\* recordTubePayout returning newLedger without updateNetProfit.
recordTubePayoutStale(l, amount) ==
    [l EXCEPT
        !.totalTubePayouts = l.totalTubePayouts + amount,
        !.totalPayoutsGiven = l.totalPayoutsGiven + amount,
        !.payoutHistory = Append(l.payoutHistory, amount)]

recordTubePayout(l, amount) ==
    updateNetProfit([l EXCEPT
        !.totalTubePayouts = l.totalTubePayouts + amount,
        !.totalPayoutsGiven = l.totalPayoutsGiven + amount,
        !.payoutHistory = Append(l.payoutHistory, amount)])

recordBustPenalty(l, amount) ==
    updateNetProfit([l EXCEPT
        !.totalBustPenaltiesCollected = l.totalBustPenaltiesCollected + amount,
        !.bustHistory = Append(l.bustHistory, amount)])

recordRoundComplete(l) == [l EXCEPT !.roundsPlayed = l.roundsPlayed + 1]

\* The three loops of processRoundOutcomes.
RECURSIVE ApplyTubePayouts(_, _)
ApplyTubePayouts(l, tubePayouts) ==
    IF tubePayouts = <<>> THEN l
    ELSE ApplyTubePayouts(recordTubePayout(l, Head(tubePayouts).amount),
                          Tail(tubePayouts))

RECURSIVE ApplyBustPenalties(_, _)
ApplyBustPenalties(l, bustPenalties) ==
    IF bustPenalties = <<>> THEN l
    ELSE ApplyBustPenalties(recordBustPenalty(l, Head(bustPenalties).amount),
                            Tail(bustPenalties))

RECURSIVE ApplyPayouts(_, _)
ApplyPayouts(l, outcomes) ==
    IF outcomes = <<>> THEN l
    ELSE ApplyPayouts(
            IF Head(outcomes).outcome = "win" /\ Head(outcomes).payout > 0
            THEN recordPayout(l, Head(outcomes).payout) ELSE l,
            Tail(outcomes))

\* processRoundOutcomes with the regular payouts applied before the tube
\* payouts.
processRoundOutcomesPayoutsFirst(l, outcomes, tubePayouts, bustPenalties, anteCollected) ==
    recordRoundComplete(
        ApplyBustPenalties(
            ApplyTubePayouts(
                ApplyPayouts(recordAnteCollection(l, anteCollected), outcomes),
                tubePayouts),
            bustPenalties))

processRoundOutcomes(l, outcomes, tubePayouts, bustPenalties, anteCollected) ==
    recordRoundComplete(
        ApplyPayouts(
            ApplyBustPenalties(
                ApplyTubePayouts(recordAnteCollection(l, anteCollected),
                                 tubePayouts),
                bustPenalties),
            outcomes))

\* Every ledger processRoundOutcomes passes through: after the ante, after
\* each tube payout, each bust penalty, each regular payout, and at the end.
ProcessSteps(l, outcomes, tubePayouts, bustPenalties, anteCollected) ==
    LET a == recordAnteCollection(l, anteCollected)
        t == ApplyTubePayouts(a, tubePayouts)
        b == ApplyBustPenalties(t, bustPenalties)
    IN  { ApplyTubePayouts(a, SubSeq(tubePayouts, 1, j)) :
              j \in 0..Len(tubePayouts) }
        \cup { ApplyBustPenalties(t, SubSeq(bustPenalties, 1, j)) :
              j \in 0..Len(bustPenalties) }
        \cup { ApplyPayouts(b, SubSeq(outcomes, 1, j)) : j \in 0..Len(outcomes) }
        \cup { processRoundOutcomes(l, outcomes, tubePayouts, bustPenalties,
                                    anteCollected) }


\* ------------------------------------------------------------------------
\* Ledger analytics (engine/houseLedger)
\* ------------------------------------------------------------------------

\* The house edge of analyzeLedger.
HouseEdgeOf(l) ==
    LET totalInput == l.totalAnteCollected + l.totalBustPenaltiesCollected
    IN  IF totalInput > 0
        THEN FDiv(FromInt(totalInput - l.totalPayoutsGiven), FromInt(totalInput))
        ELSE FZero

Analytics(l, houseEdge, healthStatus) ==
    LET rounds == FromInt(IF l.roundsPlayed = 0 THEN 1 ELSE l.roundsPlayed)
    IN  [houseEdge |-> houseEdge,
         houseEdgePercent |-> FMul(houseEdge, FromInt(100)),
         avgAntePerRound |-> FDiv(FromInt(l.totalAnteCollected), rounds),
         avgPayoutPerRound |-> FDiv(FromInt(l.totalPayoutsGiven), rounds),
         bustRate |-> FDiv(FromInt(Len(l.bustHistory)), rounds),
         profitPerRound |-> FDiv(FromInt(l.netProfit), rounds),
         isHealthy |-> healthStatus = "optimal",
         healthStatus |-> healthStatus]

\* analyzeLedger taking the ante alone as the house's input.
analyzeLedgerAnteOnly(l) ==
    LET houseEdge ==
            IF l.totalAnteCollected > 0
            THEN FDiv(FromInt(l.totalAnteCollected - l.totalPayoutsGiven),
                      FromInt(l.totalAnteCollected))
            ELSE FZero
    IN  Analytics(l, houseEdge,
                  IF FLess(houseEdge, Dec(3, 100)) THEN "low_edge"
                  ELSE IF FLess(Dec(7, 100), houseEdge) THEN "high_edge"
                  ELSE "optimal")

\* analyzeLedger with both ends of the healthy range excluded.
analyzeLedgerOpenRange(l) ==
    LET houseEdge == HouseEdgeOf(l)
    IN  Analytics(l, houseEdge,
                  IF ~FLess(Dec(3, 100), houseEdge) THEN "low_edge"
                  ELSE IF ~FLess(houseEdge, Dec(7, 100)) THEN "high_edge"
                  ELSE "optimal")

\* analyzeLedger(ledger)
analyzeLedger(l) ==
    LET houseEdge == HouseEdgeOf(l)
    IN  Analytics(l, houseEdge,
                  IF FLess(houseEdge, Dec(3, 100)) THEN "low_edge"
                  ELSE IF FLess(Dec(7, 100), houseEdge) THEN "high_edge"
                  ELSE "optimal")

\* ------------------------------------------------------------------------
\* Deck, shuffle and hand comparison (utils/deck, utils/handEvaluator)
\* ------------------------------------------------------------------------

DeckSuits == <<"s", "h", "d", "c">>

\* createDeck(): the 52 cards, suit by suit.
createDeck ==
    [i \in 1..52 |-> Card(2 + ((i - 1) % 13), DeckSuits[1 + ((i - 1) \div 13)])]

Range(q) == { q[i] : i \in 1..Len(q) }

\* A shuffled deck with the given top cards, the other cards below them.
ShuffleOf(top) == top \o SelectSeq(createDeck, LAMBDA c : c \notin Range(top))

\* The outcomes of shuffleDeck(createDeck()) a round is played with; with
\* two players the first five cards go to player 1, the next five to player
\* 2, the next five to the dealer, and the draws follow.
\*   1: two straights against a dealer who draws five and stays unpaired;
\*   2: two flushes against a dealer's pair;
\*   3: a royal flush, and a pair that ties the dealer's pair;
\*   4: three of a kind and an unpaired hand against a dealer's pair;
\*   5: a straight and an unpaired hand against a dealer's pair.
Shuffles ==
    { ShuffleOf(<< Card(5, "c"), Card(6, "d"), Card(7, "h"), Card(8, "s"), Card(9, "c"),
                   Card(10, "d"), Card(11, "c"), Card(12, "h"), Card(13, "d"), Card(14, "c"),
                   Card(2, "s"), Card(4, "d"), Card(7, "c"), Card(9, "d"), Card(11, "h"),
                   Card(3, "c"), Card(8, "d"), Card(12, "s"), Card(2, "d"), Card(6, "h") >>),
      ShuffleOf(<< Card(2, "h"), Card(5, "h"), Card(9, "h"), Card(11, "h"), Card(13, "h"),
                   Card(3, "s"), Card(6, "s"), Card(8, "s"), Card(10, "s"), Card(12, "s"),
                   Card(4, "c"), Card(4, "d"), Card(7, "d"), Card(9, "s"), Card(13, "c"),
                   Card(14, "d"), Card(6, "c"), Card(2, "c") >>),
      ShuffleOf(<< Card(10, "d"), Card(11, "d"), Card(12, "d"), Card(13, "d"), Card(14, "d"),
                   Card(8, "c"), Card(8, "d"), Card(13, "s"), Card(5, "h"), Card(3, "c"),
                   Card(8, "h"), Card(8, "s"), Card(13, "h"), Card(5, "d"), Card(3, "d"),
                   Card(14, "c"), Card(7, "c"), Card(2, "s"),
                   Card(14, "h"), Card(7, "d"), Card(2, "h") >>),
      ShuffleOf(<< Card(7, "s"), Card(7, "h"), Card(7, "d"), Card(12, "c"), Card(2, "c"),
                   Card(2, "d"), Card(4, "h"), Card(6, "c"), Card(9, "h"), Card(11, "d"),
                   Card(6, "d"), Card(6, "h"), Card(13, "c"), Card(10, "h"), Card(4, "s"),
                   Card(3, "h"), Card(9, "s"),
                   Card(3, "s"), Card(5, "c"), Card(8, "h"), Card(10, "c"), Card(12, "d"),
                   Card(11, "s"), Card(9, "c"), Card(2, "s") >>),
      ShuffleOf(<< Card(5, "c"), Card(6, "d"), Card(7, "h"), Card(8, "s"), Card(9, "c"),
                   Card(2, "d"), Card(4, "h"), Card(6, "c"), Card(9, "h"), Card(11, "d"),
                   Card(6, "s"), Card(6, "h"), Card(13, "c"), Card(10, "h"), Card(4, "s"),
                   Card(3, "s"), Card(5, "h"), Card(8, "h"), Card(10, "c"), Card(12, "d"),
                   Card(11, "s"), Card(9, "s"), Card(2, "s") >>) }

RankStrength(rank) ==
    CASE rank = "royal-flush" -> 10 [] rank = "straight-flush" -> 9
      [] rank = "four-of-a-kind" -> 8 [] rank = "full-house" -> 7
      [] rank = "flush" -> 6 [] rank = "straight" -> 5
      [] rank = "three-of-a-kind" -> 4 [] rank = "two-pair" -> 3
      [] rank = "pair" -> 2 [] rank = "high-card" -> 1

\* The ranks of a hand, the most frequent first and the higher first among
\* equally frequent ones: what two hands of one rank are compared by.
RECURSIVE ByCountThenRank(_, _)
ByCountThenRank(cs, S) ==
    IF S = {} THEN <<>>
    ELSE LET top == CHOOSE r \in S : \A q \in S :
                        CountRank(cs, q) * 15 + q <= CountRank(cs, r) * 15 + r
         IN  <<top>> \o ByCountThenRank(cs, S \ {top})

\* The HandResult of evaluateHand(cards).
NoHandResult == [rank |-> "none", value |-> <<>>]
HandResultOf(cs) ==
    [rank |-> evaluateHand(cs),
     value |-> <<RankStrength(evaluateHand(cs))>>
                  \o ByCountThenRank(cs, RanksOf(cs))]

RECURSIVE LexCompare(_, _)
LexCompare(a, b) ==
    IF a = <<>> \/ b = <<>> THEN 0
    ELSE IF Head(a) > Head(b) THEN 1
    ELSE IF Head(a) < Head(b) THEN -1
    ELSE LexCompare(Tail(a), Tail(b))

\* compareHands(a, b): > 0 if a beats b, < 0 if b beats a, 0 on a tie.
compareHands(a, b) == LexCompare(a.value, b.value)

\* ------------------------------------------------------------------------
\* Game orchestrator (orchestrator)
\* ------------------------------------------------------------------------

PlayerIds == <<"player_1", "player_2", "player_3", "player_4">>

NewParticipant(id, dealer, credits) ==
    [id |-> id, isDealer |-> dealer, credits |-> credits,
     currentHand |-> <<>>, heldCardIndices |-> <<>>, finalHand |-> <<>>,
     handResult |-> NoHandResult, htDecision |-> NullDecision,
     isBusted |-> FALSE, isActive |-> TRUE]

createParticipants(count) ==
    [i \in 1..count |-> NewParticipant(PlayerIds[i], FALSE, 1000)]

createDealer == NewParticipant("dealer", TRUE, 10000)

\* handRankToTube(rank); "none" is null.
handRankToTube(rank) ==
    CASE rank = "straight" -> "ST" [] rank = "flush" -> "FL"
      [] rank = "full-house" -> "FH" [] rank = "straight-flush" -> "SF"
      [] rank = "royal-flush" -> "RF" [] OTHER -> "none"

\* The RoundState startRound() builds for round number n.
startRound(cfg, n) ==
    [roundNumber |-> n, phase |-> "waiting", deck |-> <<>>, cardsDealt |-> 0,
     participants |-> createParticipants(cfg.playerCount),
     dealer |-> createDealer,
     playPot |-> 0, anteCollected |-> 0,
     tubeBalances |-> [t \in Tubes |-> cfg.tubes[t].initial],
     outcomes |-> <<>>, tubePayouts |-> <<>>, bustPenalties |-> <<>>,
     stackTriggers |-> <<>>]

\* collectAntes leaving the dealer out of the collection.
collectAntesPlayersOnly(r, cfg) ==
    [r EXCEPT
        !.phase = "ante",
        !.participants = [i \in 1..Len(r.participants) |->
            [r.participants[i] EXCEPT !.credits = @ - cfg.ante]],
        !.playPot = cfg.ante * Len(r.participants),
        !.anteCollected = cfg.ante * Len(r.participants)]

collectAntes(r, cfg) ==
    [r EXCEPT
        !.phase = "ante",
        !.participants = [i \in 1..Len(r.participants) |->
            [r.participants[i] EXCEPT !.credits = @ - cfg.ante]],
        !.dealer = [r.dealer EXCEPT !.credits = @ - cfg.ante],
        !.playPot = cfg.ante * (Len(r.participants) + 1),
        !.anteCollected = cfg.ante * (Len(r.participants) + 1)]

\* dealCards() when shuffleDeck(createDeck()) returned deck.
dealCards(r, deck) ==
    LET n == Len(r.participants)
    IN  [r EXCEPT
            !.phase = "deal",
            !.participants = [i \in 1..n |->
                [r.participants[i] EXCEPT
                    !.currentHand = SubSeq(deck, 5 * (i - 1) + 1, 5 * i)]],
            !.dealer = [r.dealer EXCEPT
                    !.currentHand = SubSeq(deck, 5 * n + 1, 5 * n + 5)],
            !.deck = SubSeq(deck, 5 * n + 6, Len(deck)),
            !.cardsDealt = (n + 1) * 5]

applyHTDecisions(r, en) ==
    LET Apply(p) ==
            IF ~p.isActive THEN p
            ELSE [p EXCEPT !.htDecision = decide(en, p.currentHand),
                           !.heldCardIndices = decide(en, p.currentHand).cardsToHold]
    IN  [r EXCEPT
            !.phase = "hold",
            !.participants = [i \in 1..Len(r.participants) |->
                                Apply(r.participants[i])],
            !.dealer = Apply(r.dealer)]

\* The positions of a hand that are not held.
Unheld(p) == { i \in 0..4 : i \notin Range(p.heldCardIndices) }

\* The new hand of one participant: a held position keeps its card, the
\* others take the next cards of the deck, lowest position first.
NewHand(p, deck) ==
    [k \in 1..5 |->
        IF (k - 1) \in Unheld(p)
        THEN deck[Cardinality({ j \in Unheld(p) : j <= k - 1 })]
        ELSE p.currentHand[k]]

\* The forEach of executeDraw over the participants in order.
RECURSIVE DrawAll(_, _)
DrawAll(ps, deck) ==
    IF ps = <<>> THEN [ps |-> <<>>, deck |-> deck]
    ELSE LET p == Head(ps)
             drew == IF p.isActive THEN Cardinality(Unheld(p)) ELSE 0
             rest == DrawAll(Tail(ps), SubSeq(deck, drew + 1, Len(deck)))
         IN  [ps |-> <<IF p.isActive
                       THEN [p EXCEPT !.finalHand = NewHand(p, deck)]
                       ELSE p>> \o rest.ps,
              deck |-> rest.deck]

executeDraw(r) ==
    LET n == Len(r.participants)
        drawn == DrawAll(r.participants \o <<r.dealer>>, r.deck)
    IN  [r EXCEPT
            !.phase = "draw",
            !.participants = SubSeq(drawn.ps, 1, n),
            !.dealer = drawn.ps[n + 1],
            !.deck = drawn.deck]

evaluateHands(r) ==
    LET Eval(p) ==
            IF ~p.isActive \/ Len(p.finalHand) # 5 THEN p
            ELSE [p EXCEPT !.handResult = HandResultOf(p.finalHand)]
    IN  [r EXCEPT
            !.phase = "evaluate",
            !.participants = [i \in 1..Len(r.participants) |->
                                Eval(r.participants[i])],
            !.dealer = Eval(r.dealer)]

\* config.ante * config.bustPenaltyMultiplier, the multiplier in hundredths;
\* the product is a whole number of credits for the multipliers 1.0 and 2.0
\* the configurations here carry.
BustPenalty(cfg) == (cfg.ante * cfg.bustPenaltyMultiplier) \div 100

\* The body of the forEach of resolveOutcomes for participant i, on the
\* round and the registry statistics reached so far.
ResolveOne(acc, i, cfg) ==
    LET r == acc.round
        p == r.participants[i]
    IN  IF ~p.isActive \/ p.handResult = NoHandResult THEN acc
        ELSE
        LET comparison == compareHands(p.handResult, r.dealer.handResult)
            tubeType == handRankToTube(p.handResult.rank)
            onTube == comparison > 0 /\ tubeType # "none"
            result == calculateTubePayout(r.tubeBalances[tubeType],
                                          cfg.tubes[tubeType].initial,
                                          cfg.tubes[tubeType].max,
                                          cfg.payoutStrategy)
            bust == onTube /\ result.triggersBust
            drained == onTube /\ ~result.triggersBust
            outcome == IF comparison > 0
                       THEN (IF bust THEN "bust" ELSE "win")
                       ELSE IF comparison < 0 THEN "lose"
                       ELSE IF cfg.dealerWinsOnTie THEN "lose" ELSE "tie"
            payout == IF (comparison > 0 /\ tubeType = "none") \/ outcome = "tie"
                      THEN cfg.ante ELSE 0
            tubePayout == IF drained THEN result.payout.v ELSE 0
            bustPenalty == IF bust THEN BustPenalty(cfg) ELSE 0
            htId == IF p.htDecision.kind = "decision"
                    THEN p.htDecision.htId ELSE "H0.DRAW5"
        IN  [round |->
                [r EXCEPT
                    !.participants[i] =
                        [p EXCEPT !.isBusted = (bust \/ p.isBusted),
                                  !.credits = p.credits + payout + tubePayout],
                    !.tubeBalances =
                        IF drained
                        THEN [r.tubeBalances EXCEPT ![tubeType] = result.newBalance.v]
                        ELSE r.tubeBalances,
                    !.tubePayouts =
                        IF drained
                        THEN Append(r.tubePayouts,
                                    TubePayoutRecord(tubeType, tubePayout, p.id))
                        ELSE r.tubePayouts,
                    !.bustPenalties =
                        IF bust
                        THEN Append(r.bustPenalties,
                                    BustPenaltyRecord(p.id, bustPenalty, tubeType))
                        ELSE r.bustPenalties,
                    !.outcomes = Append(r.outcomes,
                        Outcome(p.id, outcome, p.handResult.rank, payout,
                                tubePayout, bustPenalty))],
             stats |->
                recordOutcome(acc.stats, htId,
                              IF outcome = "tie" THEN "win" ELSE outcome,
                              cfg.ante, payout + tubePayout, tubeType)]

RECURSIVE ResolveFrom(_, _, _)
ResolveFrom(acc, i, cfg) ==
    IF i > Len(acc.round.participants) THEN acc
    ELSE ResolveFrom(ResolveOne(acc, i, cfg), i + 1, cfg)

\* Whether the forEach body for participant i emits tube_drained or
\* bust_triggered: the participant beats the dealer on a tube rank.
EmitsOnTube(acc, i) ==
    LET p == acc.round.participants[i]
    IN  /\ p.isActive
        /\ p.handResult # NoHandResult
        /\ compareHands(p.handResult, acc.round.dealer.handResult) > 0
        /\ handRankToTube(p.handResult.rank) # "none"

\* The forEach body for participant i cut short by a listener that throws
\* from the tube_drained or bust_triggered event: the drain or the bust is
\* in the round, the credits, the outcome and the statistics are not.
AbandonOne(acc, i, cfg) ==
    LET r == acc.round
        p == r.participants[i]
        tubeType == handRankToTube(p.handResult.rank)
        result == calculateTubePayout(r.tubeBalances[tubeType],
                                      cfg.tubes[tubeType].initial,
                                      cfg.tubes[tubeType].max,
                                      cfg.payoutStrategy)
    IN  [round |->
            IF result.triggersBust
            THEN [r EXCEPT
                    !.participants[i] = [p EXCEPT !.isBusted = TRUE],
                    !.bustPenalties =
                        Append(r.bustPenalties,
                               BustPenaltyRecord(p.id, BustPenalty(cfg), tubeType))]
            ELSE [r EXCEPT
                    !.tubeBalances =
                        [r.tubeBalances EXCEPT ![tubeType] = result.newBalance.v],
                    !.tubePayouts =
                        Append(r.tubePayouts,
                               TubePayoutRecord(tubeType, result.payout.v, p.id))],
         stats |-> acc.stats]

\* The forEach of resolveOutcomes over the participants i .. k - 1.
RECURSIVE ResolveBefore(_, _, _, _)
ResolveBefore(acc, i, k, cfg) ==
    IF i >= k THEN acc
    ELSE ResolveBefore(ResolveOne(acc, i, cfg), i + 1, k, cfg)

\* resolveOutcomes(): the round and the statistics it leaves, and whether
\* it threw 'Dealer hand not evaluated'.
resolveOutcomes(r, st, cfg) ==
    IF r.dealer.handResult = NoHandResult
    THEN [round |-> [r EXCEPT !.phase = "showdown"], stats |-> st, threw |-> TRUE]
    ELSE LET done == ResolveFrom([round |-> [r EXCEPT !.phase = "showdown"],
                                  stats |-> st], 1, cfg)
         IN  [round |-> done.round, stats |-> done.stats, threw |-> FALSE]

Min(a, b) == IF a <= b THEN a ELSE b

\* completeRound() with the refill not clamped to the tube's max.
completeRoundUnclamped(r, cfg) ==
    LET refills == cfg.playerRefillsOnWin \/ cfg.houseRefillsOnEmpty
    IN  [r EXCEPT
            !.phase = "complete",
            !.tubeBalances = [t \in Tubes |->
                IF refills /\ r.tubeBalances[t] < cfg.tubes[t].max
                THEN r.tubeBalances[t] + cfg.refillAmount
                ELSE r.tubeBalances[t]],
            !.stackTriggers =
                IF refills
                THEN r.stackTriggers \o SelectSeq(TubeOrder,
                        LAMBDA t : r.tubeBalances[t] <= cfg.autoRefillThreshold)
                ELSE r.stackTriggers]

\* The refill pass and the stack triggers of completeRound(); a trigger is
\* decided on the balance read before the refill.
completeRound(r, cfg) ==
    LET refills == cfg.playerRefillsOnWin \/ cfg.houseRefillsOnEmpty
    IN  [r EXCEPT
            !.phase = "complete",
            !.tubeBalances = [t \in Tubes |->
                IF refills /\ r.tubeBalances[t] < cfg.tubes[t].max
                THEN Min(r.tubeBalances[t] + cfg.refillAmount, cfg.tubes[t].max)
                ELSE r.tubeBalances[t]],
            !.stackTriggers =
                IF refills
                THEN r.stackTriggers \o SelectSeq(TubeOrder,
                        LAMBDA t : r.tubeBalances[t] <= cfg.autoRefillThreshold)
                ELSE r.stackTriggers]

\* requireRound letting a missing round through.
requireRoundLenient(cr) ==
    IF cr = <<>> THEN Void ELSE [kind |-> "round", round |-> cr[1]]

\* requireRound(): the current round, or an error when there is none.
requireRound(cr) ==
    IF cr = <<>> THEN Threw ELSE [kind |-> "round", round |-> cr[1]]

\* The methods whose first statement is requireRound().
RoundOps ==
    { "collectAntes", "dealCards", "applyHTDecisions", "executeDraw",
      "evaluateHands", "resolveOutcomes", "completeRound" }

\* ------------------------------------------------------------------------
\* Events of a round (GameOrchestrator.emit)
\* ------------------------------------------------------------------------

\* The EngineEvent emit(type) hands to the listeners while the
\* orchestrator's roundNumber is n (timestamp and payload left out).
EngineEvent(type, n) == [type |-> type, roundNumber |-> n]

\* The events of the forEach of resolveOutcomes over the participants from
\* i on: bust_triggered where the body records a bust penalty, tube_drained
\* where it records a tube payout.
RECURSIVE ResolveEventsFrom(_, _, _, _)
ResolveEventsFrom(acc, i, cfg, n) ==
    IF i > Len(acc.round.participants) THEN <<>>
    ELSE LET next == ResolveOne(acc, i, cfg)
             emitted ==
                IF Len(next.round.bustPenalties) > Len(acc.round.bustPenalties)
                THEN <<EngineEvent("bust_triggered", n)>>
                ELSE IF Len(next.round.tubePayouts) > Len(acc.round.tubePayouts)
                THEN <<EngineEvent("tube_drained", n)>>
                ELSE <<>>
         IN  emitted \o ResolveEventsFrom(next, i + 1, cfg, n)

\* The events resolveOutcomes() emits: none when it throws.
resolveOutcomesEvents(r, st, cfg, n) ==
    IF r.dealer.handResult = NoHandResult THEN <<>>
    ELSE ResolveEventsFrom([round |-> [r EXCEPT !.phase = "showdown"],
                            stats |-> st], 1, cfg, n)
            \o <<EngineEvent("showdown", n)>>

\* The events of the refill pass of completeRound() over the tubes from
\* the k-th on, on the balances read before the pass.
RECURSIVE RefillEventsFrom(_, _, _, _)
RefillEventsFrom(r, k, cfg, n) ==
    IF k > Len(TubeOrder) THEN <<>>
    ELSE LET tube == TubeOrder[k]
             current == r.tubeBalances[tube]
         IN  (IF current < cfg.tubes[tube].max
              THEN <<EngineEvent("tube_refilled", n)>> ELSE <<>>)
             \o (IF current <= cfg.autoRefillThreshold
                 THEN <<EngineEvent("stack_trigger", n)>> ELSE <<>>)
             \o RefillEventsFrom(r, k + 1, cfg, n)

\* completeRound() announcing the round's completion before its refills.
completeRoundEventsCompleteFirst(r, cfg, n) ==
    <<EngineEvent("round_complete", n)>>
        \o (IF cfg.playerRefillsOnWin \/ cfg.houseRefillsOnEmpty
            THEN RefillEventsFrom(r, 1, cfg, n) ELSE <<>>)

\* The events completeRound() emits.
completeRoundEvents(r, cfg, n) ==
    (IF cfg.playerRefillsOnWin \/ cfg.houseRefillsOnEmpty
     THEN RefillEventsFrom(r, 1, cfg, n) ELSE <<>>)
        \o <<EngineEvent("round_complete", n)>>

\* body applied to the value of v, for a call whose result the next call
\* reads more than once.
Then(v, body(_)) == CHOOSE y \in { body(x) : x \in {v} } : TRUE

\* executeFullRound(): the rounds its eight phase calls leave one after the
\* other, the statistics, and the events emitted on the way;
\* shuffleDeck(createDeck()) returned deck, the orchestrator's roundNumber
\* was n before the call.
executeFullRound(cfg, n, deck, en, st) ==
    Then(startRound(cfg, n + 1), LAMBDA started :
    Then(collectAntes(started, cfg), LAMBDA ante :
    Then(dealCards(ante, deck), LAMBDA dealt :
    Then(applyHTDecisions(dealt, en), LAMBDA held :
    Then(executeDraw(held), LAMBDA drawn :
    Then(evaluateHands(drawn), LAMBDA evaluated :
    Then(resolveOutcomes(evaluated, st, cfg), LAMBDA resolved :
        [round |-> completeRound(resolved.round, cfg),
         showdown |-> resolved.round,
         stats |-> resolved.stats,
         events |->
            << EngineEvent("round_start", n + 1),
               EngineEvent("ante_collected", n + 1),
               EngineEvent("cards_dealt", n + 1),
               EngineEvent("ht_decided", n + 1),
               EngineEvent("cards_drawn", n + 1),
               EngineEvent("hands_evaluated", n + 1) >>
            \o resolveOutcomesEvents(evaluated, st, cfg, n + 1)
            \o completeRoundEvents(resolved.round, cfg, n + 1)])))))))

\* ------------------------------------------------------------------------
\* AI balancing engine (ai/balancingEngine)
\* ------------------------------------------------------------------------

DEFAULT_OBJECTIVE ==
    [targetEdge |-> 5, edgeTolerance |-> 2, maxVolatility |-> 25,
     maxExploitEV |-> 2,
     weights |-> [edgeDeviation |-> 100, volatility |-> 50,
                  tubeDrain |-> 30, exploitRisk |-> 80]]

maxIterations == 100

Abs(x) == IF x < 0 THEN -x ELSE x

RECURSIVE SumSeq(_)
SumSeq(q) == IF q = <<>> THEN 0 ELSE Head(q) + SumSeq(Tail(q))

\* Object.values(metrics.tubeDrainRates).reduce((a, b) => a + b, 0), in
\* quarters; avgDrain is this sum / 5, so avgDrain > 0.3 is sum > 6 quarters
\* and avgDrain > 0.4 is sum > 8 quarters.
DrainSum(metrics) ==
    SumSeq([i \in 1..Len(TubeOrder) |-> metrics.tubeDrainRates[TubeOrder[i]]])

\* calculateScore(metrics) in ten-thousandths:
\*   edgeDev (hundredths) * weight (hundredths)
\*   + (volatility - max) * weight (hundredths) * 100
\*   + (sum - 6) quarters / 20 * weight (hundredths), i.e. * 5
\*   + each ev (hundredths) * weight (hundredths).
calculateScore(metrics) ==
    LET o == DEFAULT_OBJECTIVE
        edgePenalty == Abs(metrics.houseEdge - o.targetEdge) * o.weights.edgeDeviation
        volPenalty ==
            IF metrics.volatilityIndex > o.maxVolatility
            THEN (metrics.volatilityIndex - o.maxVolatility) * o.weights.volatility * 100
            ELSE 0
        drainPenalty ==
            IF DrainSum(metrics) > 6
            THEN (DrainSum(metrics) - 6) * o.weights.tubeDrain * 5
            ELSE 0
        exploitPenalty ==
            SumSeq([k \in 1..Len(metrics.exploitableHTs) |->
                IF metrics.exploitableHTs[k].ev > o.maxExploitEV
                THEN metrics.exploitableHTs[k].ev * o.weights.exploitRisk
                ELSE 0])
    IN  edgePenalty + volPenalty + drainPenalty + exploitPenalty

\* isOptimal(metrics) without the exploit test.
isOptimalIgnoringExploits(metrics) ==
    LET o == DEFAULT_OBJECTIVE
    IN  /\ Abs(metrics.houseEdge - o.targetEdge) < o.edgeTolerance
        /\ metrics.volatilityIndex <= o.maxVolatility

\* isOptimal(metrics).  In IEEE doubles Math.abs(e - 0.05) <= 0.02 holds for
\* the whole hundredths e = 0.04, 0.05, 0.06 only: |0.07 - 0.05| and
\* |0.03 - 0.05| are 0.020000000000000004.
isOptimal(metrics) ==
    LET o == DEFAULT_OBJECTIVE
    IN  /\ Abs(metrics.houseEdge - o.targetEdge) < o.edgeTolerance
        /\ metrics.volatilityIndex <= o.maxVolatility
        /\ \A k \in 1..Len(metrics.exploitableHTs) :
                metrics.exploitableHTs[k].ev <= o.maxExploitEV

Issue(type, severity) == [type |-> type, severity |-> severity]

\* identifyIssues(metrics): type and severity of each issue, in order.  In
\* doubles 0.05 - 0.02 is 0.030000000000000002, so an edge of 0.03 is low.
identifyIssues(metrics) ==
    LET o == DEFAULT_OBJECTIVE
        edge ==
            IF metrics.houseEdge <= o.targetEdge - o.edgeTolerance
            THEN <<Issue("low_edge",
                         IF metrics.houseEdge < 2 THEN "critical" ELSE "warning")>>
            ELSE IF metrics.houseEdge > o.targetEdge + o.edgeTolerance
            THEN <<Issue("high_edge",
                         IF metrics.houseEdge > 10 THEN "critical" ELSE "warning")>>
            ELSE <<>>
        vol ==
            IF metrics.volatilityIndex > o.maxVolatility
            THEN <<Issue("high_volatility",
                         IF 2 * metrics.volatilityIndex > 3 * o.maxVolatility
                         THEN "critical" ELSE "warning")>>
            ELSE <<>>
        exploits ==
            [k \in 1..Len(SelectSeq(metrics.exploitableHTs,
                                    LAMBDA ht : ht.ev > o.maxExploitEV)) |->
                Issue("exploit_detected",
                      IF SelectSeq(metrics.exploitableHTs,
                                   LAMBDA ht : ht.ev > o.maxExploitEV)[k].ev
                            > o.maxExploitEV * 2
                      THEN "critical" ELSE "warning")]
        unstable == SelectSeq(TubeOrder, LAMBDA t : metrics.tubeDrainRates[t] >= 2)
        tubes ==
            [k \in 1..Len(unstable) |->
                Issue("tube_unstable",
                      IF metrics.tubeDrainRates[unstable[k]] >= 3
                      THEN "critical" ELSE "warning")]
    IN  edge \o vol \o exploits \o tubes

\* generateRecommendations(currentConfig, metrics) with the refill amount
\* raised without the cap of 5.
generateRecommendationsUncapped(currentConfig, metrics) ==
    LET edgeGap == DEFAULT_OBJECTIVE.targetEdge - metrics.houseEdge
    IN  [keys |-> (IF edgeGap > 1 \/ edgeGap < -1 \/ edgeGap = 1
                   THEN {"bustPenaltyMultiplier"} ELSE {})
                    \cup (IF DrainSum(metrics) > 6 THEN {"tubes"} ELSE {})
                    \cup (IF DrainSum(metrics) > 8 THEN {"refillAmount"} ELSE {}),
         bustPenaltyMultiplier |->
            IF (currentConfig.bustPenaltyMultiplier * (100 + edgeGap)) \div 100 < 50
            THEN 50
            ELSE IF (currentConfig.bustPenaltyMultiplier * (100 + edgeGap))
                        \div 100 >= 200
            THEN 200
            ELSE (currentConfig.bustPenaltyMultiplier * (100 + edgeGap)) \div 100,
         tubes |-> [t \in Tubes |->
            IF metrics.tubeDrainRates[t] >= 2
            THEN [currentConfig.tubes[t] EXCEPT
                    !.initial = (currentConfig.tubes[t].initial
                                    * (8 + metrics.tubeDrainRates[t])) \div 8]
            ELSE currentConfig.tubes[t]],
         refillAmount |-> currentConfig.refillAmount + 1]

\* generateRecommendations(currentConfig, metrics): the Partial<EngineConfig>
\* as the set of keys it carries and their values.
\* In doubles Math.abs(0.05 - e) > 0.01 is false for the whole hundredths
\* e = 0.05 and 0.06 only (0.05 - 0.04 is 0.010000000000000002).  The
\* adjustment 1 + edgeGap * learningRate * 10 is (100 + gap) / 100, and the
\* product with the multiplier is a whole number of hundredths for the edges
\* the simulation reports here.
generateRecommendations(currentConfig, metrics) ==
    LET edgeGap == DEFAULT_OBJECTIVE.targetEdge - metrics.houseEdge
        adjustBust == edgeGap > 1 \/ edgeGap < -1 \/ edgeGap = 1
        adjustTubes == DrainSum(metrics) > 6
        adjustRefill == DrainSum(metrics) > 8
    IN  [keys |-> (IF adjustBust THEN {"bustPenaltyMultiplier"} ELSE {})
                    \cup (IF adjustTubes THEN {"tubes"} ELSE {})
                    \cup (IF adjustRefill THEN {"refillAmount"} ELSE {}),
         bustPenaltyMultiplier |->
            IF (currentConfig.bustPenaltyMultiplier * (100 + edgeGap)) \div 100 < 50
            THEN 50
            ELSE Min(200, (currentConfig.bustPenaltyMultiplier * (100 + edgeGap))
                              \div 100),
         tubes |-> [t \in Tubes |->
            IF metrics.tubeDrainRates[t] >= 2
            THEN [currentConfig.tubes[t] EXCEPT
                    !.initial = (currentConfig.tubes[t].initial
                                    * (8 + metrics.tubeDrainRates[t])) \div 8]
            ELSE currentConfig.tubes[t]],
         refillAmount |-> Min(5, currentConfig.refillAmount + 1)]

\* { ...config, ...adjustments }
Adjusted(cfg, adjustments) ==
    [cfg EXCEPT
        !.bustPenaltyMultiplier =
            IF "bustPenaltyMultiplier" \in adjustments.keys
            THEN adjustments.bustPenaltyMultiplier ELSE @,
        !.tubes = IF "tubes" \in adjustments.keys THEN adjustments.tubes ELSE @,
        !.refillAmount =
            IF "refillAmount" \in adjustments.keys
            THEN adjustments.refillAmount ELSE @]

\* mitigateExploits(exploits): the registry flags it leaves.
RECURSIVE mitigateExploits(_, _)
mitigateExploits(en, exploits) ==
    IF exploits = <<>> THEN en
    ELSE mitigateExploits(
            IF Head(exploits).ev > DEFAULT_OBJECTIVE.maxExploitEV * 2
            THEN setEnabled(en, Head(exploits).htId, FALSE)
            ELSE en,
            Tail(exploits))

\* a <= b for a finite and b finite or +Infinity.
JsLessOrEqual(a, b) == b.kind = "Infinity" \/ (b.kind = "finite" /\ a.v <= b.v)

\* a < b for a finite and b finite or +Infinity.
JsLess(a, b) == b.kind = "Infinity" \/ (b.kind = "finite" /\ a.v < b.v)

\* The locals of optimize() before it is called.
OptIdle ==
    [pc |-> "idle", i |-> 0, iterations |-> 0,
     config |-> DEFAULT_ENGINE_CONFIG, metrics |-> <<>>,
     bestScore |-> PosInf, bestConfig |-> DEFAULT_ENGINE_CONFIG,
     bestMetrics |-> <<>>, result |-> <<>>]

\* SimulationMetrics: what simulationFn reports.
Metrics(edge, vol, drains, exploits) ==
    [houseEdge |-> edge, volatilityIndex |-> vol,
     tubeDrainRates |-> drains, exploitableHTs |-> exploits]
Exploit(id, ev) == [htId |-> id, ev |-> ev]

\* ------------------------------------------------------------------------
\* Monte Carlo engine (ai/balancingEngine)
\* ------------------------------------------------------------------------

\* edges.reduce((a, b) => a + b, 0)
RECURSIVE SumOfEdges(_, _)
SumOfEdges(edges, acc) ==
    IF edges = <<>> THEN acc
    ELSE SumOfEdges(Tail(edges), FAdd(acc, Head(edges)))

\* edges.reduce((sum, e) => sum + Math.pow(e - meanEdge, 2), 0), the square
\* being the rounded product.
RECURSIVE SumOfSquares(_, _, _)
SumOfSquares(edges, meanEdge, acc) ==
    IF edges = <<>> THEN acc
    ELSE SumOfSquares(Tail(edges), meanEdge,
                      FAdd(acc, FMul(FSub(Head(edges), meanEdge),
                                     FSub(Head(edges), meanEdge))))

\* [...edges].sort((a, b) => a - b)
RECURSIVE InsertAscending(_, _)
InsertAscending(sorted, e) ==
    IF sorted = <<>> THEN <<e>>
    ELSE IF FLess(e, Head(sorted)) THEN <<e>> \o sorted
    ELSE <<Head(sorted)>> \o InsertAscending(Tail(sorted), e)

RECURSIVE SortAscending(_)
SortAscending(edges) ==
    IF edges = <<>> THEN <<>>
    ELSE InsertAscending(SortAscending(SubSeq(edges, 1, Len(edges) - 1)),
                         edges[Len(edges)])

\* Reading an array past its end.
Undefined == [kind |-> "undefined"]
ElementAt(q, i) == IF i \in 1..Len(q) THEN q[i] ELSE Undefined

\* The result runMonteCarlo computes from the edges its loop collected.
MonteCarloResult(edges, runs) ==
    LET meanEdge == FDiv(SumOfEdges(edges, FZero), FromInt(Len(edges)))
        variance == FDiv(SumOfSquares(edges, meanEdge, FZero),
                         FromInt(Len(edges)))
        stdDev == FSqrt(variance)
        sorted == SortAscending(edges)
        margin == FMul(Dec(196, 100), FDiv(stdDev, FSqrt(FromInt(runs))))
    IN  [runs |-> runs,
         meanEdge |-> meanEdge,
         edgeVariance |-> variance,
         edgeStdDev |-> stdDev,
         worstCase |-> ElementAt(sorted, 1),
         bestCase |-> ElementAt(sorted, Len(sorted)),
         confidenceInterval |-> <<FSub(meanEdge, margin), FAdd(meanEdge, margin)>>,
         isStable |-> FLess(stdDev, Dec(1, 100))]

\* runMonteCarlo before its loop.
MonteCarloStart(cfg, runs) ==
    [pc |-> "monteCarlo", i |-> 0, runs |-> runs, config |-> cfg,
     edges |-> <<>>, calls |-> <<>>]

\* ------------------------------------------------------------------------
\* Initial values
\* ------------------------------------------------------------------------

\* The registry as its constructor leaves it.
RegistryInit ==
    /\ enabled = [id \in RuleIds |-> TRUE]
    /\ stats = [id \in RuleIds |-> createEmptyStats]

\* No call made yet.
CallInit ==
    /\ lastOp = "init"
    /\ cards = <<>>
    /\ ret = Void

\* new GameOrchestrator(cfg)
OrchestratorInit(cfg) ==
    /\ ledger = createHouseLedger
    /\ config = cfg
    /\ currentRound = <<>>
    /\ roundNumber = 0
    /\ isRunning = FALSE
    /\ roundHistory = <<>>

\* ------------------------------------------------------------------------
\* The registry as a state machine
\* ------------------------------------------------------------------------

\* The most rules disabled at once.
MaxDisabled == 2

Disabled(en) == { id \in RuleIds : ~en[id] }

HTInit ==
    /\ RegistryInit
    /\ CallInit
    /\ args = NoArgs
    /\ OrchestratorInit(DEFAULT_ENGINE_CONFIG)
    /\ opt = OptIdle

\* Calls are sequential: a decision is returned to its caller before the
\* next call on the registry starts.
SetEnabled(htId, b) ==
    /\ Cardinality(Disabled(setEnabled(enabled, htId, b))) <= MaxDisabled
    /\ enabled' = setEnabled(enabled, htId, b)
    /\ lastOp' = "setEnabled"
    /\ cards' = <<>>
    /\ ret' = Void
    /\ UNCHANGED <<stats, args, gameVars, opt>>

\* Hands decide is asked about besides those of the deck, and while the
\* optimizer runs: one without a pair, a draw, an ace or a king, and one
\* with an ace high.
ProbeHands ==
    { << Card(2, "c"), Card(5, "d"), Card(7, "h"), Card(9, "s"), Card(11, "c") >>,
      << Card(14, "s"), Card(7, "d"), Card(4, "c"), Card(9, "h"), Card(2, "s") >> }

\* Card lists decide refuses: too short, too long, empty.
MalformedHands == { <<>>, SubSeq(Deck, 1, 4), SubSeq(Deck, 1, 6) }

Decide(cs) ==
    /\ lastOp' = "decide"
    /\ cards' = cs
    /\ ret' = decide(enabled, cs)
    /\ UNCHANGED <<registryVars, args, gameVars, opt>>

Return ==
    /\ lastOp = "decide"
    /\ lastOp' = "returned"
    /\ cards' = <<>>
    /\ ret' = Void
    /\ UNCHANGED <<registryVars, args, gameVars, opt>>

NextHT ==
    \/ lastOp # "decide" /\ \E htId \in RuleIds \cup {UnknownId}, b \in BOOLEAN :
            SetEnabled(htId, b)
    \/ lastOp # "decide"
         /\ \E cs \in Hands \cup ProbeHands \cup MalformedHands : Decide(cs)
    \/ Return

SpecHT == HTInit /\ [][NextHT]_vars

\* ------------------------------------------------------------------------
\* calculateTubePayout on its own
\* ------------------------------------------------------------------------

\* The largest balance calculateTubePayout is called with.
MaxTubeArg == 8

TubeInit ==
    /\ RegistryInit
    /\ CallInit
    /\ OrchestratorInit(DEFAULT_ENGINE_CONFIG)
    /\ opt = OptIdle
    /\ args \in [fn : {"calculateTubePayout"}, type : Strategies,
                 current : -1..MaxTubeArg, initial : 0..MaxTubeArg,
                 max : 0..MaxTubeArg]

CalculateTubePayout ==
    /\ lastOp = "init"
    /\ lastOp' = "calculateTubePayout"
    /\ ret' = calculateTubePayout(args.current, args.initial, args.max, args.type)
    /\ UNCHANGED <<registryVars, cards, args, gameVars, opt>>

NextTube == CalculateTubePayout

SpecTube == TubeInit /\ [][NextTube]_vars

\* ------------------------------------------------------------------------
\* The ledger on its own
\* ------------------------------------------------------------------------

\* The largest amount recorded, the most entries a ledger holds before a
\* call, and the longest lists handed to processRoundOutcomes.
MaxAmount == 2
MaxLedgerSize == 3
MaxRecords == 2

LedgerSize(l) ==
    Len(l.anteHistory) + Len(l.payoutHistory) + Len(l.bustHistory)
        + l.roundsPlayed

SeqsUpTo(S, n) == UNION { [1..k -> S] : k \in 0..n }

LedgerOutcomes ==
    { Outcome("player_1", "win", "pair", a, 0, 0) : a \in 0..MaxAmount }
    \cup { Outcome("player_1", "tie", "pair", MaxAmount, 0, 0),
           Outcome("player_1", "lose", "high-card", 0, 0, 0) }
LedgerTubePayouts ==
    { TubePayoutRecord("ST", a, "player_1") : a \in 1..MaxAmount }
LedgerBustPenalties ==
    { BustPenaltyRecord("player_1", a, "RF") : a \in 1..MaxAmount }

LedgerInit == HTInit

LedgerCall(op, l) ==
    /\ LedgerSize(ledger) < MaxLedgerSize
    /\ lastOp' = op
    /\ ledger' = l
    /\ args' = NoArgs
    /\ UNCHANGED <<registryVars, cards, ret, config, currentRound, roundNumber,
                   isRunning, roundHistory, opt>>

RecordAnteCollection(amount) ==
    LedgerCall("recordAnteCollection", recordAnteCollection(ledger, amount))
RecordPayout(amount) ==
    LedgerCall("recordPayout", recordPayout(ledger, amount))
RecordTubePayout(amount) ==
    LedgerCall("recordTubePayout", recordTubePayout(ledger, amount))
RecordBustPenalty(amount) ==
    LedgerCall("recordBustPenalty", recordBustPenalty(ledger, amount))
RecordRoundComplete ==
    LedgerCall("recordRoundComplete", recordRoundComplete(ledger))

ProcessRoundOutcomes(outcomes, tubePayouts, bustPenalties, anteCollected) ==
    /\ LedgerSize(ledger) + 2 <= MaxLedgerSize
    /\ lastOp' = "processRoundOutcomes"
    /\ args' = [fn |-> "processRoundOutcomes", ledger |-> ledger,
                outcomes |-> outcomes, tubePayouts |-> tubePayouts,
                bustPenalties |-> bustPenalties,
                anteCollected |-> anteCollected]
    /\ ledger' = processRoundOutcomes(ledger, outcomes, tubePayouts,
                                      bustPenalties, anteCollected)
    /\ UNCHANGED <<registryVars, cards, ret, config, currentRound, roundNumber,
                   isRunning, roundHistory, opt>>

NextLedger ==
    \/ \E amount \in 0..MaxAmount : RecordAnteCollection(amount)
    \/ \E amount \in 0..MaxAmount : RecordPayout(amount)
    \/ \E amount \in 0..MaxAmount : RecordTubePayout(amount)
    \/ \E amount \in 0..MaxAmount : RecordBustPenalty(amount)
    \/ RecordRoundComplete
    \/ \E outcomes \in SeqsUpTo(LedgerOutcomes, MaxRecords),
          tubePayouts \in SeqsUpTo(LedgerTubePayouts, MaxRecords),
          bustPenalties \in SeqsUpTo(LedgerBustPenalties, MaxRecords - 1),
          anteCollected \in {0, MaxAmount} :
            ProcessRoundOutcomes(outcomes, tubePayouts, bustPenalties,
                                 anteCollected)

SpecLedger == LedgerInit /\ [][NextLedger]_vars

\* ------------------------------------------------------------------------
\* What the simulation reports
\* ------------------------------------------------------------------------

NoDrain == [t \in Tubes |-> 0]
\* ST and FL drained at rate 1.0, the other tubes at 0.25: average 0.55.
HighDrain == [t \in Tubes |-> IF t \in {"ST", "FL"} THEN 4 ELSE 1]

\* The metrics simulationFn returns: within targets; one critical and one
\* warning-level exploit; a critical exploit of the fallback rule (and of an
\* id that is not registered); high volatility with draining tubes; a house
\* edge of -0.95.
SimulationMetrics ==
    { Metrics(5, 10, NoDrain, <<>>),
      Metrics(5, 10, NoDrain, <<Exploit("H1.HC", 5), Exploit("H2.1P", 3)>>),
      Metrics(5, 10, NoDrain, <<Exploit(UnknownId, 9), Exploit("H0.DRAW5", 5)>>),
      Metrics(5, 30, HighDrain, <<>>),
      Metrics(-95, 10, NoDrain, <<>>) }

\* ------------------------------------------------------------------------
\* The orchestrator as a state machine
\* ------------------------------------------------------------------------

\* Players at the table, rounds played, and adjustment steps of the
\* optimizer behind the configuration the orchestrator is built with.
PlayerCount == 2
MaxRounds == 2
MaxAdjustments == 2

\* The configurations the optimizer's loop holds after at most n adjustment
\* steps from the default configuration.
RECURSIVE ConfigsAfter(_)
ConfigsAfter(n) ==
    IF n = 0 THEN {DEFAULT_ENGINE_CONFIG}
    ELSE ConfigsAfter(n - 1)
            \cup { Adjusted(c, generateRecommendations(c, m)) :
                     c \in ConfigsAfter(n - 1),
                     m \in { x \in SimulationMetrics : ~isOptimal(x) } }

\* playerRefillsOnWin and houseRefillsOnEmpty as the caller sets them.
RefillFlags == { <<TRUE, TRUE>>, <<TRUE, FALSE>>, <<FALSE, FALSE>> }

GameInit ==
    /\ RegistryInit
    /\ CallInit
    /\ args = NoArgs
    /\ opt = OptIdle
    /\ \E c \in ConfigsAfter(MaxAdjustments), s \in Strategies,
          flags \in RefillFlags :
            OrchestratorInit([c EXCEPT !.playerCount = PlayerCount,
                                       !.payoutStrategy = s,
                                       !.playerRefillsOnWin = flags[1],
                                       !.houseRefillsOnEmpty = flags[2]])

\* The caller runs the phases in the order of executeFullRound (and of the
\* game page): a phase method is called on the round its predecessor left.
InPhase(phase) == currentRound # <<>> /\ currentRound[1].phase = phase

Phase(op, r) ==
    /\ lastOp' = op
    /\ currentRound' = <<r>>
    /\ cards' = <<>>
    /\ ret' = Void
    /\ args' = NoArgs
    /\ UNCHANGED <<registryVars, ledger, config, roundNumber, isRunning,
                   roundHistory, opt>>

StartRound ==
    /\ currentRound = <<>> \/ InPhase("complete")
    /\ Len(roundHistory) < MaxRounds
    /\ roundNumber' = roundNumber + 1
    /\ isRunning' = TRUE
    /\ currentRound' = <<startRound(config, roundNumber + 1)>>
    /\ lastOp' = "startRound"
    /\ cards' = <<>>
    /\ ret' = Void
    /\ args' = NoArgs
    /\ UNCHANGED <<registryVars, ledger, config, roundHistory, opt>>

\* A phase method called while there is no round: requireRound() throws
\* and the method's body does not run.
WithoutRound(op) ==
    /\ currentRound = <<>>
    /\ ret' = requireRound(currentRound)
    /\ lastOp' = "requireRound"
    /\ args' = [fn |-> op]
    /\ cards' = <<>>
    /\ UNCHANGED <<registryVars, gameVars, opt>>

CollectAntes ==
    /\ InPhase("waiting")
    /\ Phase("collectAntes", collectAntes(currentRound[1], config))

DealCards(deck) ==
    /\ InPhase("ante")
    /\ Phase("dealCards", dealCards(currentRound[1], deck))

ApplyHTDecisions ==
    /\ InPhase("deal")
    /\ Phase("applyHTDecisions", applyHTDecisions(currentRound[1], enabled))

ExecuteDraw ==
    /\ InPhase("hold")
    /\ Phase("executeDraw", executeDraw(currentRound[1]))

EvaluateHands ==
    /\ InPhase("draw")
    /\ Phase("evaluateHands", evaluateHands(currentRound[1]))

ResolveOutcomes ==
    /\ InPhase("evaluate")
    /\ LET resolved == resolveOutcomes(currentRound[1], stats, config)
       IN  /\ currentRound' = <<resolved.round>>
           /\ stats' = resolved.stats
           /\ ret' = IF resolved.threw THEN Threw ELSE Void
    /\ lastOp' = "resolveOutcomes"
    /\ cards' = <<>>
    /\ args' = [fn |-> "resolveOutcomes", round |-> currentRound[1],
                stats |-> stats]
    /\ UNCHANGED <<enabled, ledger, config, roundNumber, isRunning,
                   roundHistory, opt>>

\* resolveOutcomes() left by an exception a listener throws from the
\* event participant k's tube win or bust emits; the exception reaches the
\* caller, which calls nothing more on the round.
AbandonResolve(k) ==
    /\ InPhase("evaluate")
    /\ currentRound[1].dealer.handResult # NoHandResult
    /\ k \in 1..Len(currentRound[1].participants)
    /\ LET before == ResolveBefore(
                        [round |-> [currentRound[1] EXCEPT !.phase = "showdown"],
                         stats |-> stats], 1, k, config)
       IN  /\ EmitsOnTube(before, k)
           /\ currentRound' = <<AbandonOne(before, k, config).round>>
           /\ stats' = before.stats
    /\ ret' = Threw
    /\ lastOp' = "resolveOutcomesThrew"
    /\ cards' = <<>>
    /\ args' = [fn |-> "resolveOutcomes", round |-> currentRound[1],
                stats |-> stats, ledger |-> ledger]
    /\ UNCHANGED <<enabled, ledger, config, roundNumber, isRunning,
                   roundHistory, opt>>

CompleteRound ==
    /\ InPhase("showdown")
    /\ ret # Threw
    /\ currentRound' = <<completeRound(currentRound[1], config)>>
    /\ ledger' = processRoundOutcomes(ledger, currentRound[1].outcomes,
                                      currentRound[1].tubePayouts,
                                      currentRound[1].bustPenalties,
                                      currentRound[1].anteCollected)
    /\ isRunning' = FALSE
    /\ roundHistory' = Append(roundHistory,
                              completeRound(currentRound[1], config))
    /\ lastOp' = "completeRound"
    /\ cards' = <<>>
    /\ ret' = Void
    /\ args' = [fn |-> "completeRound", round |-> currentRound[1],
                ledger |-> ledger]
    /\ UNCHANGED <<registryVars, config, roundNumber, opt>>

\* HTRegistry.resetStats() called between two rounds.
ResetStats ==
    /\ InPhase("complete")
    /\ stats # resetStats(stats)
    /\ stats' = resetStats(stats)
    /\ lastOp' = "resetStats"
    /\ cards' = <<>>
    /\ ret' = Void
    /\ args' = NoArgs
    /\ UNCHANGED <<enabled, gameVars, opt>>

NextGame ==
    \/ ResetStats
    \/ StartRound
    \/ \E op \in RoundOps : WithoutRound(op)
    \/ CollectAntes
    \/ \E deck \in Shuffles : DealCards(deck)
    \/ ApplyHTDecisions
    \/ ExecuteDraw
    \/ EvaluateHands
    \/ ResolveOutcomes
    \/ \E k \in 1..PlayerCount : AbandonResolve(k)
    \/ CompleteRound

SpecGame == GameInit /\ [][NextGame]_vars

\* ------------------------------------------------------------------------
\* The optimizer as a state machine
\* ------------------------------------------------------------------------

\* The simulation reports a tube as draining only while the tube's initial
\* balance in the configuration it was run with is at most this.
MaxTubeInitial == 15

OptInit == HTInit

\* optimize(currentConfig, simulationFn) is called with the orchestrator's
\* configuration.
Optimize ==
    /\ opt.pc = "idle"
    /\ opt' = [OptIdle EXCEPT !.pc = "loop", !.config = config,
                              !.bestConfig = config]
    /\ lastOp' = "optimize"
    /\ cards' = <<>>
    /\ ret' = Void
    /\ UNCHANGED <<registryVars, args, gameVars>>

\* The loop body adjusting and mitigating before it tests for the optimum.
IterateAdjustingFirst(metrics) ==
    /\ opt.pc = "loop"
    /\ opt.i < maxIterations
    /\ \A t \in Tubes : metrics.tubeDrainRates[t] >= 2
            => opt.config.tubes[t].initial <= MaxTubeInitial
    /\ LET score == Fin(calculateScore(metrics))
           better == JsLess(score, opt.bestScore)
           stop == isOptimal(metrics)
       IN  /\ opt' = [opt EXCEPT
                        !.iterations = opt.iterations + 1,
                        !.metrics = <<metrics>>,
                        !.bestScore = IF better THEN score ELSE opt.bestScore,
                        !.bestConfig = IF better THEN opt.config ELSE opt.bestConfig,
                        !.bestMetrics = IF better THEN <<metrics>>
                                        ELSE opt.bestMetrics,
                        !.pc = IF stop THEN "break" ELSE "loop",
                        !.i = IF stop THEN opt.i ELSE opt.i + 1,
                        !.config =
                            Adjusted(opt.config,
                                generateRecommendations(opt.config, metrics))]
           /\ enabled' = mitigateExploits(enabled, metrics.exploitableHTs)
    /\ lastOp' = "iterate"
    /\ cards' = <<>>
    /\ ret' = Void
    /\ UNCHANGED <<stats, args, gameVars>>

\* One pass of the loop body, simulationFn returning metrics: what it does
\* to the locals of optimize and to the registry.
LoopBody(metrics) ==
    /\ opt.pc = "loop"
    /\ opt.i < maxIterations
    /\ \A t \in Tubes : metrics.tubeDrainRates[t] >= 2
            => opt.config.tubes[t].initial <= MaxTubeInitial
    /\ LET score == Fin(calculateScore(metrics))
           better == JsLess(score, opt.bestScore)
           stop == isOptimal(metrics)
       IN  /\ opt' = [opt EXCEPT
                        !.iterations = opt.iterations + 1,
                        !.metrics = <<metrics>>,
                        !.bestScore = IF better THEN score ELSE opt.bestScore,
                        !.bestConfig = IF better THEN opt.config ELSE opt.bestConfig,
                        !.bestMetrics = IF better THEN <<metrics>>
                                        ELSE opt.bestMetrics,
                        !.pc = IF stop THEN "break" ELSE "loop",
                        !.i = IF stop THEN opt.i ELSE opt.i + 1,
                        !.config =
                            IF stop THEN opt.config
                            ELSE Adjusted(opt.config,
                                    generateRecommendations(opt.config, metrics))]
           /\ enabled' = IF stop THEN enabled
                         ELSE mitigateExploits(enabled, metrics.exploitableHTs)
    /\ lastOp' = "iterate"
    /\ cards' = <<>>
    /\ ret' = Void
    /\ UNCHANGED <<stats, gameVars>>

\* One pass of the loop body, simulationFn returning metrics.
Iterate(metrics) == LoopBody(metrics) /\ UNCHANGED args

\* The code after the loop; metrics is what simulationFn returns should
\* bestMetrics be null.
Finish(metrics) ==
    /\ (opt.pc = "loop" /\ opt.i >= maxIterations) \/ opt.pc = "break"
    /\ LET finalMetrics == IF opt.bestMetrics # <<>> THEN opt.bestMetrics[1]
                           ELSE metrics
           result == [score |-> opt.bestScore,
                      isOptimal |-> isOptimal(finalMetrics),
                      metrics |-> finalMetrics,
                      recommendedConfig |-> opt.bestConfig,
                      issues |-> identifyIssues(finalMetrics),
                      iterations |-> opt.iterations]
       IN  opt' = [opt EXCEPT !.pc = "done", !.result = <<result>>]
    /\ lastOp' = "optimized"
    /\ cards' = <<>>
    /\ ret' = Void
    /\ UNCHANGED <<registryVars, args, gameVars>>

NextOptimize ==
    \/ Optimize
    \/ \E metrics \in SimulationMetrics : Iterate(metrics)
    \/ \E metrics \in SimulationMetrics : Finish(metrics)

\* The optimizer with decide called between its steps.
NextOpt ==
    \/ NextOptimize
    \/ \E cs \in ProbeHands : Decide(cs)

SpecOpt == OptInit /\ [][NextOpt]_vars

\* The optimizer alone; each step of optimize is taken once it can be.
SpecOptimize == OptInit /\ [][NextOptimize]_vars /\ WF_vars(NextOptimize)

\* ------------------------------------------------------------------------
\* The adjustment step of the optimizer's loop
\* ------------------------------------------------------------------------

\* Passes of the loop body followed here.
MaxAdjustSteps == 2

\* ST drained at rate 0.5 and no other tube: average 0.1.
OneDrain == [t \in Tubes |-> IF t = "ST" THEN 2 ELSE 0]
\* ST drained at rate 1.0, FL at 0.75: average 0.35.
MidDrain == [t \in Tubes |-> CASE t = "ST" -> 4 [] t = "FL" -> 3 [] OTHER -> 0]

\* What simulationFn may report to a pass: a house edge on target, 0.06,
\* 0.55 or -0.95 (adjustment factors 1, 0.99, 0.5 and 2, whose products
\* with the multipliers 0.5, 1.0 and 2.0 are exact in doubles), volatility
\* under and over the maximum, four drain patterns, with and without an
\* exploit.
AdjustMetrics ==
    { Metrics(edge, vol, drains, exploits) :
        edge \in {5, 6, 55, -95},
        vol \in {10, 30},
        drains \in {NoDrain, OneDrain, MidDrain, HighDrain},
        exploits \in {<<>>, <<Exploit("H1.HC", 5)>>} }

\* The configurations optimize is called with: the default one, and the
\* default one with a refill amount of 4.
AdjustConfigs ==
    { DEFAULT_ENGINE_CONFIG, [DEFAULT_ENGINE_CONFIG EXCEPT !.refillAmount = 4] }

AdjustInit ==
    /\ RegistryInit
    /\ CallInit
    /\ args = NoArgs
    /\ opt = OptIdle
    /\ \E c \in AdjustConfigs : OrchestratorInit(c)

\* One of the first passes of the loop body.
AdjustStep(metrics) ==
    /\ opt.iterations < MaxAdjustSteps
    /\ Iterate(metrics)

NextAdjust ==
    \/ Optimize
    \/ \E metrics \in AdjustMetrics : AdjustStep(metrics)
    \/ \E metrics \in AdjustMetrics : Finish(metrics)

SpecAdjust == AdjustInit /\ [][NextAdjust]_vars

\* ------------------------------------------------------------------------
\* State machine: runMonteCarlo and its simulation function
\* ------------------------------------------------------------------------

\* The most runs asked for.
MaxRuns == 3

\* The house edges a run reports, in hundredths: inside the target range,
\* at both of its ends, and far above it.
ReportedEdges == { 4, 5, 6, 55 }

MonteCarloInit == AdjustInit

\* runMonteCarlo(simulationFn, config, runs) is called with the
\* orchestrator's configuration.
RunMonteCarlo(runs) ==
    /\ opt.pc = "idle"
    /\ opt' = MonteCarloStart(config, runs)
    /\ lastOp' = "runMonteCarlo"
    /\ cards' = <<>>
    /\ ret' = Void
    /\ args' = [fn |-> "runMonteCarlo", config |-> config, runs |-> runs]
    /\ UNCHANGED <<registryVars, gameVars>>

\* One pass of the loop: simulationFn(config, roundsPerRun) reports a house
\* edge, which is pushed on edges.
Simulate(edge) ==
    /\ opt.pc = "monteCarlo"
    /\ opt.i < opt.runs
    /\ opt' = [opt EXCEPT !.i = opt.i + 1,
                          !.edges = Append(opt.edges, Dec(edge, 100)),
                          !.calls = Append(opt.calls, opt.config)]
    /\ lastOp' = "simulationFn"
    /\ UNCHANGED <<registryVars, gameVars, cards, args, ret>>

\* The loop is over: the statistics are computed and returned.
MonteCarloReturn ==
    /\ opt.pc = "monteCarlo"
    /\ opt.i >= opt.runs
    /\ ret' = MonteCarloResult(opt.edges, opt.runs)
    /\ args' = [fn |-> "runMonteCarlo", config |-> opt.config,
                runs |-> opt.runs, edges |-> opt.edges, calls |-> opt.calls]
    /\ opt' = OptIdle
    /\ lastOp' = "runMonteCarloReturned"
    /\ cards' = <<>>
    /\ UNCHANGED <<registryVars, gameVars>>

NextMonteCarlo ==
    \/ \E runs \in 0..MaxRuns : RunMonteCarlo(runs)
    \/ \E edge \in ReportedEdges : Simulate(edge)
    \/ MonteCarloReturn

SpecMonteCarlo == MonteCarloInit /\ [][NextMonteCarlo]_vars

\* ------------------------------------------------------------------------
\* State machine: analyzeLedger on ledgers with edges around 3% and 7%
\* ------------------------------------------------------------------------

\* The most entries of the ledger analysed.
MaxAnalysisSize == 4

\* What the house takes in one record, and what it pays: of 100 taken,
\* 92 paid is an edge of 8%, 93 of 7%, 97 of 3% and 98 of 2%.
InputAmounts == { 100 }
PayoutAmounts == { 1, 5, 92 }

AnalysisInit == HTInit

AnalysisCall(op, l) ==
    /\ LedgerSize(ledger) < MaxAnalysisSize
    /\ lastOp' = op
    /\ ledger' = l
    /\ args' = NoArgs
    /\ ret' = Void
    /\ UNCHANGED <<registryVars, cards, config, currentRound, roundNumber,
                   isRunning, roundHistory, opt>>

TakeAnte(amount) ==
    AnalysisCall("recordAnteCollection", recordAnteCollection(ledger, amount))
TakeBustPenalty(amount) ==
    AnalysisCall("recordBustPenalty", recordBustPenalty(ledger, amount))
PayOut(amount) ==
    AnalysisCall("recordPayout", recordPayout(ledger, amount))
EndRound ==
    AnalysisCall("recordRoundComplete", recordRoundComplete(ledger))

AnalyzeLedger ==
    /\ lastOp' = "analyzeLedger"
    /\ ret' = analyzeLedger(ledger)
    /\ args' = [fn |-> "analyzeLedger", ledger |-> ledger]
    /\ UNCHANGED <<registryVars, cards, gameVars, opt>>

NextAnalysis ==
    \/ \E amount \in InputAmounts : TakeAnte(amount)
    \/ \E amount \in InputAmounts : TakeBustPenalty(amount)
    \/ \E amount \in PayoutAmounts : PayOut(amount)
    \/ EndRound
    \/ AnalyzeLedger

SpecAnalysis == AnalysisInit /\ [][NextAnalysis]_vars

\* ------------------------------------------------------------------------
\* State machine: successive payouts from one tube
\* ------------------------------------------------------------------------

\* The highest balance a tube starts with.
MaxStartBalance == 24

\* A tube with a positive balance, its initial and max those of the
\* default ST and FL tubes or 0, and the strategy paying from it.
DrainInit ==
    /\ RegistryInit
    /\ CallInit
    /\ OrchestratorInit(DEFAULT_ENGINE_CONFIG)
    /\ opt = OptIdle
    /\ \E type \in Strategies, start \in 1..MaxStartBalance,
          tube \in { DEFAULT_ENGINE_CONFIG.tubes["ST"],
                     DEFAULT_ENGINE_CONFIG.tubes["FL"],
                     [initial |-> 0, max |-> 0] } :
            args = [fn |-> "calculateTubePayout", type |-> type,
                    start |-> start, current |-> start,
                    initial |-> tube.initial, max |-> tube.max, drains |-> 0]

\* The next payout is calculated on the balance the last one left.
Drain ==
    /\ lastOp = "calculateTubePayout" => ret.newBalance.kind = "finite"
    /\ LET current == IF lastOp = "calculateTubePayout"
                      THEN ret.newBalance.v ELSE args.current
       IN  /\ ret' = calculateTubePayout(current, args.initial, args.max,
                                         args.type)
           /\ args' = [args EXCEPT !.current = current,
                                   !.drains = IF @ < MaxStartBalance
                                              THEN @ + 1 ELSE @]
    /\ lastOp' = "calculateTubePayout"
    /\ UNCHANGED <<registryVars, cards, gameVars, opt>>

NextDrain == Drain

SpecDrain == DrainInit /\ [][NextDrain]_vars

\* ------------------------------------------------------------------------
\* State machine: getExploitableHTs on a registry that has seen long play
\* ------------------------------------------------------------------------

\* The statistics of a rule after wins winning outcomes that each paid
\* twice the ante and losses losing ones, at the default ante.
Played(wins, losses) ==
    LET wagered == DEFAULT_ENGINE_CONFIG.ante * (wins + losses)
        won == 2 * DEFAULT_ENGINE_CONFIG.ante * wins
    IN  [createEmptyStats EXCEPT
            !.usageCount = wins + losses, !.winCount = wins,
            !.lossCount = losses, !.totalWon = won, !.totalWagered = wagered,
            !.calculatedEV = IF wagered > 0
                             THEN [num |-> won - wagered, den |-> wagered]
                             ELSE @]

\* Unused; 100 uses and 101 uses at a high EV; 200 uses at an EV of exactly
\* 0.02 and of 0.03; 150 uses at a loss.
PlayProfiles ==
    { Played(0, 0), Played(60, 40), Played(60, 41), Played(102, 98),
      Played(103, 97), Played(60, 90) }

\* The rules whose play varies; H5.FL has 200 uses at an EV of 0.03.
PlayedRules == { "H1.HC", "H2.1P" }

\* The thresholds asked for, in hundredths: 0.02 is the default.
Thresholds == { 0, 2, 50 }

ExploitInit ==
    /\ enabled = [id \in RuleIds |-> TRUE]
    /\ \E played \in [PlayedRules -> PlayProfiles] :
          stats = [id \in RuleIds |->
                      IF id \in PlayedRules THEN played[id]
                      ELSE IF id = "H5.FL" THEN Played(103, 97)
                      ELSE createEmptyStats]
    /\ CallInit
    /\ args = NoArgs
    /\ OrchestratorInit(DEFAULT_ENGINE_CONFIG)
    /\ opt = OptIdle

GetExploitableHTs(threshold) ==
    /\ lastOp' = "getExploitableHTs"
    /\ ret' = [kind |-> "exploits",
               list |-> getExploitableHTs(stats, Dec(threshold, 100))]
    /\ args' = [fn |-> "getExploitableHTs", threshold |-> threshold]
    /\ cards' = <<>>
    /\ UNCHANGED <<registryVars, gameVars, opt>>

NextExploit ==
    \/ \E htId \in PlayedRules, b \in BOOLEAN : SetEnabled(htId, b)
    \/ \E threshold \in Thresholds : GetExploitableHTs(threshold)

SpecExploit == ExploitInit /\ [][NextExploit]_vars

\* ------------------------------------------------------------------------
\* The optimizer's best tracking, with the iterations it ran on record
\* ------------------------------------------------------------------------

\* Iterations of optimize followed with their record.
MaxBestSteps == 3

\* ST and FH drained at rate 1.0: average 0.4.
WideDrain == [t \in Tubes |-> IF t \in {"ST", "FH"} THEN 4 ELSE 0]

\* What simulationFn may report to an iteration: metrics within targets with
\* scores 0, 0.025 and 0.04, and metrics that are not, with scores 0.039
\* (a warning-level exploit, tubes adjusted), 0.515 (edge 0.55, multiplier
\* and tubes adjusted) and 2.5 (volatility 30, nothing adjusted).
BestMetrics ==
    { Metrics(5, 10, NoDrain, <<>>),
      Metrics(4, 10, MidDrain, <<>>),
      Metrics(6, 10, WideDrain, <<>>),
      Metrics(5, 10, MidDrain, <<Exploit("H2.1P", 3)>>),
      Metrics(55, 10, MidDrain, <<>>),
      Metrics(5, 30, NoDrain, <<>>) }

\* An iteration as it ran: the configuration simulationFn was called with,
\* the metrics it returned and their score.
IterationRecord(cfg, metrics) ==
    [config |-> cfg, metrics |-> metrics, score |-> calculateScore(metrics)]

BestInit ==
    /\ RegistryInit
    /\ CallInit
    /\ args = [fn |-> "optimize", history |-> <<>>]
    /\ opt = OptIdle
    /\ \E c \in AdjustConfigs : OrchestratorInit(c)

\* One of the first passes of the loop body, put on record.
RecordedIterate(metrics) ==
    /\ opt.iterations < MaxBestSteps
    /\ LoopBody(metrics)
    /\ args' = [args EXCEPT
                  !.history = Append(@, IterationRecord(opt.config, metrics))]

NextBest ==
    \/ Optimize
    \/ \E metrics \in BestMetrics : RecordedIterate(metrics)
    \/ \E metrics \in BestMetrics : Finish(metrics)

SpecBest == BestInit /\ [][NextBest]_vars

\* ------------------------------------------------------------------------
\* Full rounds with a listener keeping the events
\* ------------------------------------------------------------------------

\* executeFullRound() with a listener that keeps every event it is handed.
ExecuteFullRound(deck) ==
    /\ Len(roundHistory) < MaxRounds
    /\ \E full \in {executeFullRound(config, roundNumber, deck, enabled, stats)} :
           /\ currentRound' = <<full.round>>
           /\ stats' = full.stats
           /\ ledger' = processRoundOutcomes(ledger, full.showdown.outcomes,
                                             full.showdown.tubePayouts,
                                             full.showdown.bustPenalties,
                                             full.showdown.anteCollected)
           /\ roundHistory' = Append(roundHistory, full.round)
           /\ args' = [fn |-> "executeFullRound", events |-> full.events]
    /\ roundNumber' = roundNumber + 1
    /\ isRunning' = FALSE
    /\ lastOp' = "executeFullRound"
    /\ cards' = <<>>
    /\ ret' = Void
    /\ UNCHANGED <<enabled, config, opt>>

NextFullRound == \E deck \in Shuffles : ExecuteFullRound(deck)

SpecFullRound == GameInit /\ [][NextFullRound]_vars

\* ------------------------------------------------------------------------
\* The orchestrator with phase methods called again on a round
\* ------------------------------------------------------------------------

\* Further calls of resolveOutcomes() and of completeRound() on one round,
\* beyond the one call of the phase order.
MaxRepeats == 1

\* resolveOutcomes() called on a round that is already resolved: the method
\* has no test of the round's phase.
ResolveAgain ==
    /\ InPhase("showdown") \/ InPhase("complete")
    /\ ret # Threw
    /\ Len(currentRound[1].outcomes) <= MaxRepeats * PlayerCount
    /\ LET resolved == resolveOutcomes(currentRound[1], stats, config)
       IN  /\ currentRound' = <<resolved.round>>
           /\ stats' = resolved.stats
           /\ ret' = IF resolved.threw THEN Threw ELSE Void
    /\ lastOp' = "resolveOutcomes"
    /\ cards' = <<>>
    /\ args' = [fn |-> "resolveOutcomes", round |-> currentRound[1],
                stats |-> stats]
    /\ UNCHANGED <<enabled, ledger, config, roundNumber, isRunning,
                   roundHistory, opt>>

\* completeRound() called on a round that is already complete.
CompleteAgain ==
    /\ InPhase("complete")
    /\ ledger.roundsPlayed < roundNumber + MaxRepeats
    /\ currentRound' = <<completeRound(currentRound[1], config)>>
    /\ ledger' = processRoundOutcomes(ledger, currentRound[1].outcomes,
                                      currentRound[1].tubePayouts,
                                      currentRound[1].bustPenalties,
                                      currentRound[1].anteCollected)
    /\ isRunning' = FALSE
    /\ roundHistory' = Append(roundHistory,
                              completeRound(currentRound[1], config))
    /\ lastOp' = "completeRound"
    /\ cards' = <<>>
    /\ ret' = Void
    /\ args' = [fn |-> "completeRound", round |-> currentRound[1],
                ledger |-> ledger]
    /\ UNCHANGED <<registryVars, config, roundNumber, opt>>

NextRepeat ==
    \/ NextGame
    \/ ResolveAgain
    \/ CompleteAgain

SpecRepeat == GameInit /\ [][NextRepeat]_vars

\* ------------------------------------------------------------------------
\* Rounds in which a tube rank does not win
\* ------------------------------------------------------------------------

\* An outcome of shuffleDeck(createDeck()): player 1's straight ties the
\* dealer's straight, player 2's lower straight loses to it.
StraightsAgainstStraight ==
    { ShuffleOf(<< Card(5, "c"), Card(6, "d"), Card(7, "h"), Card(8, "s"), Card(9, "c"),
                   Card(4, "c"), Card(5, "d"), Card(6, "h"), Card(7, "s"), Card(8, "c"),
                   Card(5, "h"), Card(6, "s"), Card(7, "c"), Card(8, "d"), Card(9, "d") >>) }

NextHits ==
    \/ NextGame
    \/ \E deck \in StraightsAgainstStraight : DealCards(deck)

SpecHits == GameInit /\ [][NextHits]_vars

\* ------------------------------------------------------------------------
\* The game page (pages/Game, components/game/GameControlsPanel)
\* ------------------------------------------------------------------------

\* renderMainAction(): the label of the button the panel renders for a
\* phase; "none" is null.
renderMainAction(phase, isSimulating) ==
    IF isSimulating THEN "Simulating..."
    ELSE CASE phase \in {"betting", "waiting"} -> "Deal"
           [] phase \in {"holding", "hold"} -> "Draw"
           [] phase \in {"showdown", "evaluate"} -> "Resolving..."
           [] phase \in {"result", "payout", "complete"} -> "New Hand"
           [] OTHER -> "none"

\* Whether the button with this label is rendered without `disabled`.
ButtonEnabled(label, canAffordAnte) ==
    CASE label = "Deal" -> canAffordAnte
      [] label \in {"Draw", "New Hand"} -> TRUE
      [] OTHER -> FALSE

\* The props GamePage passes to the panel: round?.phase || 'waiting', and
\* the sum of the participants' credits || 4000 against the default ante.
PhaseProp == IF currentRound = <<>> THEN "waiting" ELSE currentRound[1].phase

totalPlayerCredits ==
    LET sum == IF currentRound = <<>> THEN 0
               ELSE SumSeq([i \in 1..Len(currentRound[1].participants) |->
                               currentRound[1].participants[i].credits])
    IN  IF sum = 0 THEN 4000 ELSE sum

canAffordAnte == totalPlayerCredits >= DEFAULT_ENGINE_CONFIG.ante

\* The main action the panel shows in this state, and whether the panel
\* offers the button with this label: rendered and enabled.
MainAction == renderMainAction(PhaseProp, FALSE)
PanelOffers(label) == MainAction = label /\ ButtonEnabled(label, canAffordAnte)

\* The page after it is loaded: the orchestrator of createGameOrchestrator()
\* with the default configuration and the registry as constructed; no
\* timeout is pending, and every handler run so far (none) was started from
\* a button the panel offered.
PageState(fn, timers, byPanel) == [fn |-> fn, timers |-> timers, byPanel |-> byPanel]

PageConfig == [DEFAULT_ENGINE_CONFIG EXCEPT !.playerCount = PlayerCount]

PageInit ==
    /\ RegistryInit
    /\ CallInit
    /\ args = PageState("GamePage", 0, TRUE)
    /\ opt = OptIdle
    /\ OrchestratorInit(PageConfig)

\* The outcomes of shuffleDeck(createDeck()) the page's rounds are dealt from.
PageShuffles == Shuffles \cup StraightsAgainstStraight

\* handleDeal: startRound, collectAntes, dealCards, setGameState.
handleDeal(deck) ==
    /\ currentRound = <<>> \/ InPhase("complete")
    /\ Len(roundHistory) < MaxRounds
    /\ roundNumber' = roundNumber + 1
    /\ isRunning' = TRUE
    /\ currentRound' =
            <<dealCards(collectAntes(startRound(config, roundNumber + 1), config),
                        deck)>>
    /\ lastOp' = "handleDeal"
    /\ cards' = <<>>
    /\ ret' = Void
    /\ args' = PageState("handleDeal", args.timers,
                         args.byPanel /\ PanelOffers("Deal"))
    /\ UNCHANGED <<registryVars, ledger, config, roundHistory, opt>>

\* handleDraw: applyHTDecisions, executeDraw, evaluateHands, a timeout of
\* 1500 ms set, setGameState.
handleDraw ==
    /\ InPhase("deal")
    /\ currentRound' =
            <<evaluateHands(executeDraw(applyHTDecisions(currentRound[1], enabled)))>>
    /\ lastOp' = "handleDraw"
    /\ cards' = <<>>
    /\ ret' = Void
    /\ args' = PageState("handleDraw", args.timers + 1,
                         args.byPanel /\ PanelOffers("Draw"))
    /\ UNCHANGED <<registryVars, ledger, config, roundNumber, isRunning,
                   roundHistory, opt>>

\* The callback of handleDraw's timeout: resolveOutcomes, completeRound,
\* setGameState.
ResolveTimeout ==
    /\ args.timers > 0
    /\ InPhase("evaluate")
    /\ LET resolved == resolveOutcomes(currentRound[1], stats, config)
           completed == completeRound(resolved.round, config)
       IN  /\ ~resolved.threw
           /\ stats' = resolved.stats
           /\ currentRound' = <<completed>>
           /\ ledger' = processRoundOutcomes(ledger, resolved.round.outcomes,
                                             resolved.round.tubePayouts,
                                             resolved.round.bustPenalties,
                                             resolved.round.anteCollected)
           /\ roundHistory' = Append(roundHistory, completed)
    /\ isRunning' = FALSE
    /\ lastOp' = "resolveTimeout"
    /\ cards' = <<>>
    /\ ret' = Void
    /\ args' = PageState("setTimeout", args.timers - 1, args.byPanel)
    /\ UNCHANGED <<enabled, config, roundNumber, opt>>

\* handleNewHand: setGameState(orchestrator.getState()) and nothing else.
handleNewHand ==
    /\ InPhase("complete")
    /\ lastOp # "handleNewHand"
    /\ lastOp' = "handleNewHand"
    /\ cards' = <<>>
    /\ ret' = Void
    /\ args' = PageState("handleNewHand", args.timers,
                         args.byPanel /\ PanelOffers("New Hand"))
    /\ UNCHANGED <<registryVars, gameVars, opt>>

\* handleReset: window.location.reload(), the page as loaded; a pending
\* timeout is gone with the page.
handleReset ==
    /\ currentRound # <<>>
    /\ enabled' = [id \in RuleIds |-> TRUE]
    /\ stats' = [id \in RuleIds |-> createEmptyStats]
    /\ lastOp' = "init"
    /\ cards' = <<>>
    /\ ret' = Void
    /\ args' = PageState("GamePage", 0, TRUE)
    /\ ledger' = createHouseLedger
    /\ config' = PageConfig
    /\ currentRound' = <<>>
    /\ roundNumber' = 0
    /\ isRunning' = FALSE
    /\ roundHistory' = <<>>
    /\ UNCHANGED opt

\* The handlers in the order of a round, whether or not the panel offers
\* their button. The event loop runs the timeout's callback unless the page
\* is reloaded; the player of the claim keeps driving the game, so a handler
\* that stays possible is run.
NextPage ==
    \/ \E deck \in PageShuffles : handleDeal(deck)
    \/ handleDraw
    \/ ResolveTimeout
    \/ handleNewHand
    \/ handleReset

SpecPage ==
    /\ PageInit
    /\ [][NextPage]_vars
    /\ WF_vars(ResolveTimeout)
    /\ WF_vars(handleDraw)
    /\ WF_vars(handleNewHand)
    /\ WF_vars(\E deck \in PageShuffles : handleDeal(deck))
\* ------------------------------------------------------------------------
\* Properties of the HT registry (checked under SpecHT)
\* ------------------------------------------------------------------------

\* The enabled rules whose matcher yields a hold set for the hand.
Matching(en, cs) ==
    { id \in RuleIds : en[id] /\ ~Matcher(id, cs, evaluateHand(cs)).isNull }

\* C1 (totality): every decide call on a 5-card hand, whatever rules are
\* enabled, returns a decision: a registered rule id with hold positions
\* inside the hand; it neither throws nor returns null.
C1_Totality ==
    (lastOp = "decide" /\ Len(cards) = 5) =>
        /\ ret.kind = "decision"
        /\ ret.htId \in RuleIds
        /\ \A k \in 1..Len(ret.cardsToHold) : ret.cardsToHold[k] \in Positions(cards)

\* C1 witness: a decide call for which no enabled rule matched.
C1_Witness ==
    /\ lastOp = "decide"
    /\ Len(cards) = 5
    /\ Matching(enabled, cards) = {}
    /\ ret.kind = "decision"

\* C2 (priority correctness): decide returns the highest-priority rule among
\* the enabled rules whose matcher yields a hold set; with every default
\* rule enabled a flush yields H5.FL, never a draw rule.
C2_PriorityCorrect ==
    (lastOp = "decide" /\ Len(cards) = 5) =>
        /\ ret.htId \in Matching(enabled, cards)
        /\ \A id \in Matching(enabled, cards) : Priority(id) <= Priority(ret.htId)
        /\ (Disabled(enabled) = {} /\ evaluateHand(cards) = "flush")
                => ret.htId = "H5.FL"


\* C22 (malformed hand): a decide call with a card list whose length is not
\* 5 throws, returning no decision, and changes no enabled flag and no
\* rule's statistics.
C22_MalformedHand ==
    [][ (lastOp' = "decide" /\ Len(cards') # 5) =>
            /\ ret' = Threw
            /\ enabled' = enabled
            /\ stats' = stats ]_vars

\* C22 witness: decide refused four cards while a rule was disabled.
C22_Witness ==
    /\ lastOp = "decide"
    /\ Len(cards) = 4
    /\ ret = Threw
    /\ Disabled(enabled) # {}

\* The positions a decision holds, and the positions of the hand whose rank
\* occurs n times in it.
HeldSet(decision) ==
    { decision.cardsToHold[k] : k \in 1..Len(decision.cardsToHold) }
PositionsOfCount(cs, n) ==
    { i \in Positions(cs) : CountRank(cs, At(cs, i).rank) = n }

MadeRanks ==
    { "royal-flush", "straight-flush", "four-of-a-kind", "full-house",
      "flush", "straight" }

DecidedByDefaults ==
    lastOp = "decide" /\ Len(cards) = 5 /\ Disabled(enabled) = {}

HighCardHeld ==
    /\ DecidedByDefaults
    /\ ret.htId = "H1.HC"
    /\ ret.cardsToHold # <<0>>

FallbackHeldNothing ==
    DecidedByDefaults /\ ret.htId = "H0.DRAW5" /\ ret.cardsToHold = <<>>

\* A one-pair hand that holds a 4-card draw is decided by the draw band,
\* which stands above the pairs.
PairDecidedByDraw ==
    /\ DecidedByDefaults
    /\ evaluateHand(cards) = "pair"
    /\ ret.category = "H4"
    /\ Len(ret.cardsToHold) = 4
\* C5 (tube clamp): for every strategy and every currentBalance >= 0 with
\* non-negative initial and max, the payout returned is at most
\* currentBalance and newBalance = currentBalance - payout >= 0.
C5_TubeClamp ==
    (lastOp = "calculateTubePayout" /\ args.current >= 0) =>
        /\ JsLeq(ret.payout, Fin(args.current))
        /\ ret.newBalance = JsSub(Fin(args.current), ret.payout)
        /\ JsLeq(Fin(0), ret.newBalance) /\ ret.newBalance.kind = "finite"

\* C6 (empty-tube redirect): with currentBalance <= 0 the result is payout 0,
\* newBalance 0, wasEmpty and triggersBust, whatever the strategy and the
\* tube's initial and max are.
C6_EmptyRedirect ==
    (lastOp = "calculateTubePayout" /\ args.current <= 0) =>
        ret = [payout |-> Fin(0), newBalance |-> Fin(0),
               wasEmpty |-> TRUE, triggersBust |-> TRUE]

\* C6 witness: an empty tube under a strategy whose formula would not give 0.
C6_Witness ==
    /\ lastOp = "calculateTubePayout"
    /\ args.current = 0
    /\ Calculate(args.type, [current |-> 0, initial |-> args.initial,
                             max |-> args.max]) # Fin(0)
    /\ ret.triggersBust


\* C27 (percentage never empties): under the percentage strategy (25%), a
\* tube that starts at a positive whole balance has, after any number of
\* successive calculateTubePayout calls, a balance of at least 1, and no
\* call triggers the empty-tube bust.
C27_PercentageNeverEmpties ==
    (lastOp = "calculateTubePayout" /\ args.type = "percentage"
        /\ args.start >= 1) =>
        /\ ret.newBalance.kind = "finite"
        /\ ret.newBalance.v >= 1
        /\ ~ret.triggersBust
        /\ ~ret.wasEmpty

\* C27 witness: drained from the highest start down to where a quarter of
\* the balance rounds to nothing.
C27_Witness ==
    /\ lastOp = "calculateTubePayout"
    /\ args.type = "percentage"
    /\ args.start = MaxStartBalance
    /\ args.drains >= 8
    /\ ret.payout = Fin(0)
    /\ ret.newBalance = Fin(3)

\* Under the fixed strategy the same tube is emptied and then busts.
FixedEmpties ==
    /\ lastOp = "calculateTubePayout"
    /\ args.type = "fixed"
    /\ ret.triggersBust
Conserved(l) ==
    l.netProfit = l.totalAnteCollected + l.totalBustPenaltiesCollected
                    - l.totalPayoutsGiven

\* C3 (ledger conservation): in every reachable ledger, and in every ledger
\* processRoundOutcomes passes through between its record calls,
\* netProfit = totalAnteCollected + totalBustPenaltiesCollected
\*             - totalPayoutsGiven.
C3_LedgerConservation ==
    /\ Conserved(ledger)
    /\ lastOp = "processRoundOutcomes" =>
         \A l \in ProcessSteps(args.ledger, args.outcomes, args.tubePayouts,
                               args.bustPenalties, args.anteCollected) :
            Conserved(l)

\* C3 witness: a processed round with a tube payout, a bust penalty and a
\* regular payout, on a ledger that already held entries.
C3_Witness ==
    /\ lastOp = "processRoundOutcomes"
    /\ LedgerSize(args.ledger) > 0
    /\ ledger.totalTubePayouts > args.ledger.totalTubePayouts
    /\ ledger.totalBustPenaltiesCollected > args.ledger.totalBustPenaltiesCollected
    /\ ledger.totalPayoutsGiven - ledger.totalTubePayouts
         > args.ledger.totalPayoutsGiven - args.ledger.totalTubePayouts
    /\ ledger.netProfit # 0

\* ------------------------------------------------------------------------
\* Properties of a round
\* ------------------------------------------------------------------------

\* C4 (tube balance invariant): in every state of every round, rounds under
\* an optimizer-adjusted configuration included, each tube balance is at
\* least 0 and at most the tube's max.
C4_TubeInvariant ==
    currentRound # <<>> =>
        \A t \in Tubes :
            /\ 0 <= currentRound[1].tubeBalances[t]
            /\ currentRound[1].tubeBalances[t] <= config.tubes[t].max

\* The balance of tube t that participant i of resolveOutcomes meets: the
\* balance the call started with less what the participants before i drew
\* from t.
Facing(balances, outcomes, i, t) ==
    balances[t] - SumSeq([j \in 1..(i - 1) |->
                    IF handRankToTube(outcomes[j].handRank) = t
                    THEN outcomes[j].tubePayout ELSE 0])

\* Participant i of round r beats the dealer with a hand bound to a tube.
WinsOnTube(r, i) ==
    /\ compareHands(r.participants[i].handResult, r.dealer.handResult) > 0
    /\ handRankToTube(r.participants[i].handResult.rank) \in Tubes

\* C7 (bust scenario): a player who beats the dealer with a tube rank whose
\* tube is at 0 gets outcome bust and the player's credits go down by
\* ante x bustPenaltyMultiplier; completing the round adds exactly the
\* round's bust penalties to totalBustPenaltiesCollected, and
\* totalPayoutsGiven grows by the payouts of the winning outcomes only.
C7_BustScenario ==
    /\ lastOp = "resolveOutcomes" =>
         \A i \in 1..Len(currentRound[1].participants) :
            LET r == currentRound[1]
                t == handRankToTube(r.participants[i].handResult.rank)
            IN  (WinsOnTube(r, i)
                    /\ Facing(args.round.tubeBalances, r.outcomes, i, t) = 0)
                => /\ r.outcomes[i].outcome = "bust"
                   /\ r.outcomes[i].payout = 0
                   /\ r.outcomes[i].tubePayout = 0
                   /\ r.participants[i].credits
                        = args.round.participants[i].credits - BustPenalty(config)
    /\ lastOp = "completeRound" =>
         LET os == args.round.outcomes
         IN  /\ ledger.totalBustPenaltiesCollected
                  = args.ledger.totalBustPenaltiesCollected
                      + SumSeq([j \in 1..Len(os) |->
                            IF os[j].outcome = "bust"
                            THEN BustPenalty(config) ELSE 0])
             /\ ledger.totalPayoutsGiven
                  = args.ledger.totalPayoutsGiven
                      + SumSeq([j \in 1..Len(os) |->
                            IF os[j].outcome = "win"
                            THEN os[j].payout + os[j].tubePayout ELSE 0])

\* The outcome and the ledger half of C7 without the debit of the credits.
BustOutcomeAndLedger ==
    /\ lastOp = "resolveOutcomes" =>
         \A i \in 1..Len(currentRound[1].participants) :
            LET r == currentRound[1]
                t == handRankToTube(r.participants[i].handResult.rank)
            IN  (WinsOnTube(r, i)
                    /\ Facing(args.round.tubeBalances, r.outcomes, i, t) = 0)
                => /\ r.outcomes[i].outcome = "bust"
                   /\ r.outcomes[i].bustPenalty = BustPenalty(config)
                   /\ r.participants[i].credits
                        = args.round.participants[i].credits
    /\ lastOp = "completeRound" =>
         LET os == args.round.outcomes
         IN  /\ ledger.totalBustPenaltiesCollected
                  = args.ledger.totalBustPenaltiesCollected
                      + SumSeq([j \in 1..Len(os) |->
                            IF os[j].outcome = "bust"
                            THEN BustPenalty(config) ELSE 0])
             /\ ledger.totalPayoutsGiven
                  = args.ledger.totalPayoutsGiven
                      + SumSeq([j \in 1..Len(os) |->
                            IF os[j].outcome = "win"
                            THEN os[j].payout + os[j].tubePayout ELSE 0])

\* A bust was resolved: a tube-ranked winner met an empty tube.
BustResolved ==
    /\ lastOp = "resolveOutcomes"
    /\ \E i \in 1..Len(currentRound[1].outcomes) :
            currentRound[1].outcomes[i].outcome = "bust"

\* min(strategy result, current balance) for tube t at balance current.
ClampedPayout(t, current) ==
    LET s == Calculate(config.payoutStrategy,
                       [current |-> current, initial |-> config.tubes[t].initial,
                        max |-> config.tubes[t].max])
    IN  IF s.v <= current THEN s.v ELSE current

\* C10 (tube payout scenario): a player who beats the dealer with a tube
\* rank whose tube is not empty wins min(strategy result, current balance);
\* the tube goes down by what was paid from it, the player's credits go up
\* by the payout, and completing the round adds exactly the round's tube
\* payouts to the ledger's totalTubePayouts.
C10_TubePayoutScenario ==
    /\ lastOp = "resolveOutcomes" =>
         LET r == currentRound[1]
         IN  /\ \A i \in 1..Len(r.participants) :
                  LET t == handRankToTube(r.participants[i].handResult.rank)
                      current == Facing(args.round.tubeBalances, r.outcomes, i, t)
                  IN  (WinsOnTube(r, i) /\ current > 0)
                      => /\ r.outcomes[i].outcome = "win"
                         /\ r.outcomes[i].tubePayout = ClampedPayout(t, current)
                         /\ r.participants[i].credits
                              = args.round.participants[i].credits
                                  + ClampedPayout(t, current)
                         /\ \E k \in 1..Len(r.tubePayouts) :
                              r.tubePayouts[k] =
                                TubePayoutRecord(t, ClampedPayout(t, current),
                                                 r.participants[i].id)
             /\ \A t \in Tubes :
                  r.tubeBalances[t]
                    = Facing(args.round.tubeBalances, r.outcomes,
                             Len(r.outcomes) + 1, t)
    /\ lastOp = "completeRound" =>
         LET os == args.round.outcomes
         IN  ledger.totalTubePayouts
               = args.ledger.totalTubePayouts
                   + SumSeq([j \in 1..Len(os) |->
                        IF os[j].outcome = "win" THEN os[j].tubePayout ELSE 0])

\* C10 witness: a completed round in which a tube paid twice, the second
\* payout clamped to the balance the first one left, and the ledger's
\* totalTubePayouts grew by both.
C10_Witness ==
    /\ lastOp = "completeRound"
    /\ Len(args.round.tubePayouts) = 2
    /\ args.round.tubePayouts[1].tubeType = args.round.tubePayouts[2].tubeType
    /\ args.round.tubePayouts[2].amount > 0
    /\ args.round.tubePayouts[2].amount
         = config.tubes[args.round.tubePayouts[2].tubeType].initial
             - args.round.tubePayouts[1].amount
    /\ args.round.tubeBalances[args.round.tubePayouts[2].tubeType] = 0
    /\ ledger.totalTubePayouts
         = args.ledger.totalTubePayouts
             + args.round.tubePayouts[1].amount + args.round.tubePayouts[2].amount

\* ------------------------------------------------------------------------
\* Properties of the optimizer
\* ------------------------------------------------------------------------

\* C8 (exploit mitigation): after an iteration whose metrics report a
\* registered rule with EV above 2 x maxExploitEV that rule is disabled, and
\* decide never returns the id of a disabled rule.
C8_ExploitMitigation ==
    /\ (opt.pc = "loop" /\ opt.metrics # <<>>) =>
         \A k \in 1..Len(opt.metrics[1].exploitableHTs) :
            LET ht == opt.metrics[1].exploitableHTs[k]
            IN  (ht.ev > 2 * DEFAULT_OBJECTIVE.maxExploitEV /\ ht.htId \in RuleIds)
                    => ~enabled[ht.htId]
    /\ (lastOp = "decide" /\ ret.kind = "decision") => enabled[ret.htId]

\* The flags half of C8: the rules the last iteration's metrics report above
\* 2 x maxExploitEV are disabled.
ExploitsDisabled ==
    (opt.pc = "loop" /\ opt.metrics # <<>>) =>
        \A k \in 1..Len(opt.metrics[1].exploitableHTs) :
            LET ht == opt.metrics[1].exploitableHTs[k]
            IN  (ht.ev > 2 * DEFAULT_OBJECTIVE.maxExploitEV /\ ht.htId \in RuleIds)
                    => ~enabled[ht.htId]

\* A rule the optimizer's run disabled stays disabled.
StaysDisabled ==
    [][\A id \in RuleIds : ~enabled[id] => ~enabled'[id]]_vars

\* The optimal predicate of the objective: house edge within edgeTolerance
\* of targetEdge (0.04, 0.05 or 0.06 in doubles), volatility at most
\* maxVolatility, and no reported EV above maxExploitEV.
WithinTargets(metrics) ==
    /\ metrics.houseEdge \in 4..6
    /\ metrics.volatilityIndex <= 25
    /\ \A k \in 1..Len(metrics.exploitableHTs) :
            metrics.exploitableHTs[k].ev <= 2

\* The iteration count of optimize: the loop goes on exactly after the
\* iterations whose metrics are not optimal, leaves right after one whose
\* metrics are, and otherwise leaves after iteration 100.
IterationCount ==
    /\ opt.pc = "loop" =>
         /\ opt.iterations = opt.i
         /\ opt.iterations <= 100
         /\ opt.metrics # <<>> => ~WithinTargets(opt.metrics[1])
    /\ opt.pc = "break" =>
         /\ opt.iterations = opt.i + 1
         /\ opt.iterations <= 100
         /\ WithinTargets(opt.metrics[1])
    /\ opt.pc = "done" =>
         /\ opt.result[1].iterations = opt.iterations
         /\ 1 <= opt.iterations
         /\ opt.iterations <= 100
         /\ WithinTargets(opt.metrics[1]) \/ opt.iterations = 100

\* C9 (optimizer termination): optimize returns, after at least 1 and at
\* most 100 iterations: right after the first iteration whose metrics are
\* optimal, and after exactly 100 if none is, whatever issues are reported.
C9_Termination == []IterationCount /\ <>(opt.pc = "done")

\* C9 witness: optimize returned after 100 iterations, none optimal, with
\* issues reported.
C9_Witness ==
    /\ opt.pc = "done"
    /\ opt.iterations = 100
    /\ ~WithinTargets(opt.metrics[1])
    /\ ~opt.result[1].isOptimal
    /\ opt.result[1].issues # <<>>

\* ------------------------------------------------------------------------
\* Properties of a round: ties, tube balances, refill, statistics
\* ------------------------------------------------------------------------

\* The rule resolveOutcomes records participant p's outcome under.
DecidingRule(p) ==
    IF p.htDecision.kind = "decision" THEN p.htDecision.htId ELSE "H0.DRAW5"

\* How many participants of round r decided by rule id got an outcome in
\* kinds.
Resolved(r, id, kinds) ==
    Cardinality({ j \in 1..Len(r.outcomes) :
                    /\ DecidingRule(r.participants[j]) = id
                    /\ r.outcomes[j].outcome \in kinds })

\* Participant i of round r ties the dealer.
Ties(r, i) ==
    compareHands(r.participants[i].handResult, r.dealer.handResult) = 0

\* C11 (tie refund): with dealerWinsOnTie false a player who ties the dealer
\* gets outcome tie with payout = ante and the ante back, the deciding
\* rule's statistics count the outcome as a win, and completing the round
\* adds the refunded ante to the ledger's totalPayoutsGiven.
C11_TieRefund ==
    /\ (lastOp = "resolveOutcomes" /\ ~config.dealerWinsOnTie) =>
         \A i \in 1..Len(currentRound[1].participants) :
            LET r == currentRound[1]
                id == DecidingRule(r.participants[i])
            IN  Ties(r, i)
                => /\ r.outcomes[i].outcome = "tie"
                   /\ r.outcomes[i].payout = config.ante
                   /\ r.participants[i].credits
                        = args.round.participants[i].credits + config.ante
                   /\ stats[id].winCount
                        = args.stats[id].winCount + Resolved(r, id, {"win", "tie"})
                   /\ stats[id].lossCount
                        = args.stats[id].lossCount + Resolved(r, id, {"lose"})
    /\ lastOp = "completeRound" =>
         LET os == args.round.outcomes
         IN  ledger.totalPayoutsGiven
               = args.ledger.totalPayoutsGiven
                   + SumSeq([j \in 1..Len(os) |->
                        IF os[j].outcome \in {"win", "tie"}
                        THEN os[j].payout + os[j].tubePayout ELSE 0])

\* The outcome and the statistics half of C11, the ledger left out.
TieOutcomeAndStats ==
    (lastOp = "resolveOutcomes" /\ ~config.dealerWinsOnTie) =>
         \A i \in 1..Len(currentRound[1].participants) :
            LET r == currentRound[1]
                id == DecidingRule(r.participants[i])
            IN  Ties(r, i)
                => /\ r.outcomes[i].outcome = "tie"
                   /\ r.outcomes[i].payout = config.ante
                   /\ r.participants[i].credits
                        = args.round.participants[i].credits + config.ante
                   /\ stats[id].winCount
                        = args.stats[id].winCount + Resolved(r, id, {"win", "tie"})

\* A round with a tie was completed.
TieCompleted ==
    /\ lastOp = "completeRound"
    /\ \E j \in 1..Len(args.round.outcomes) :
            args.round.outcomes[j].outcome = "tie"

\* C12 (tube balance frame): only the drains of resolveOutcomes and the
\* refill pass of completeRound change a tube balance; every other
\* operation, startRound of the next round included, leaves each tube at
\* the balance it had, so a round begins on the balances the previous
\* round's refill pass left.
C12_TubeFrame ==
    [][(/\ currentRound # <<>>
        /\ currentRound' # <<>>
        /\ lastOp' \notin {"resolveOutcomes", "resolveOutcomesThrew",
                            "completeRound"})
       => currentRound'[1].tubeBalances = currentRound[1].tubeBalances]_vars

\* The frame of C12 inside a round: between startRound and completeRound
\* only resolveOutcomes changes a tube balance.
TubeFrameWithinRound ==
    [][(/\ currentRound # <<>>
        /\ currentRound' # <<>>
        /\ lastOp' \notin {"startRound", "resolveOutcomes",
                            "resolveOutcomesThrew", "completeRound"})
       => currentRound'[1].tubeBalances = currentRound[1].tubeBalances]_vars

\* Refilling is enabled in the configuration.
RefillEnabled == config.playerRefillsOnWin \/ config.houseRefillsOnEmpty

\* current + refillAmount clamped to the max of tube t.
Refilled(t, current) ==
    IF current + config.refillAmount <= config.tubes[t].max
    THEN current + config.refillAmount ELSE config.tubes[t].max

\* C17 as stated (round-end refill): at the end of every round each tube
\* with current < max goes up by refillAmount, clamped to max, and each
\* tube with current = max is left unchanged.
C17_RoundEndRefill ==
    lastOp = "completeRound" =>
        \A t \in Tubes :
            LET current == args.round.tubeBalances[t]
            IN  /\ current < config.tubes[t].max
                    => currentRound[1].tubeBalances[t] = Refilled(t, current)
                /\ current = config.tubes[t].max
                    => currentRound[1].tubeBalances[t] = current

\* C17 amended: at the end of a round run with playerRefillsOnWin or
\* houseRefillsOnEmpty set each tube with current < max goes up by
\* refillAmount, clamped to max, and each tube with current >= max is left
\* unchanged; with both flags off no tube balance changes.
C17_RefillWhenEnabled ==
    lastOp = "completeRound" =>
        \A t \in Tubes :
            LET current == args.round.tubeBalances[t]
            IN  currentRound[1].tubeBalances[t] =
                    IF RefillEnabled /\ current < config.tubes[t].max
                    THEN Refilled(t, current) ELSE current

\* C17 witness: a round completed with refilling enabled in which one tube
\* was refilled up to its max by less than refillAmount, one by the whole
\* refillAmount, and one at or over its max was left alone.
C17_Witness ==
    /\ lastOp = "completeRound"
    /\ RefillEnabled
    /\ \E t \in Tubes :
        /\ args.round.tubeBalances[t] < config.tubes[t].max
        /\ args.round.tubeBalances[t] + config.refillAmount > config.tubes[t].max
        /\ currentRound[1].tubeBalances[t] = config.tubes[t].max
    /\ \E t \in Tubes :
        /\ args.round.tubeBalances[t] + config.refillAmount < config.tubes[t].max
        /\ currentRound[1].tubeBalances[t]
             = args.round.tubeBalances[t] + config.refillAmount
    /\ \E t \in Tubes :
        /\ args.round.tubeBalances[t] >= config.tubes[t].max
        /\ currentRound[1].tubeBalances[t] = args.round.tubeBalances[t]

\* The tubes at or below autoRefillThreshold when completeRound is called.
AtOrBelowThreshold ==
    { t \in Tubes : args.round.tubeBalances[t] <= config.autoRefillThreshold }

\* C18 (stack trigger): at round end a tube is recorded in stackTriggers
\* exactly when its balance is at or below autoRefillThreshold, whether or
\* not it was refilled and whether or not refilling is enabled, and the
\* balances are those the refill pass alone leaves.
C18_StackTrigger ==
    lastOp = "completeRound" =>
        /\ Range(currentRound[1].stackTriggers) = AtOrBelowThreshold
        /\ \A t \in Tubes :
            currentRound[1].tubeBalances[t] =
                IF RefillEnabled /\ args.round.tubeBalances[t] < config.tubes[t].max
                THEN Refilled(t, args.round.tubeBalances[t])
                ELSE args.round.tubeBalances[t]

\* C18 for the rounds run with refilling enabled.
StackTriggerWhenRefilling ==
    (lastOp = "completeRound" /\ RefillEnabled) =>
        Range(currentRound[1].stackTriggers) = AtOrBelowThreshold

\* A round completed with refilling disabled and a tube at or below the
\* threshold.
LowTubeWithoutRefilling ==
    /\ lastOp = "completeRound"
    /\ ~RefillEnabled
    /\ AtOrBelowThreshold # {}

\* usageCount summed over all rules.
TotalUsage(st) ==
    SumSeq([k \in 1..Len(RuleOrder) |-> st[RuleOrder[k]].usageCount])

\* The outcomes a round holds so far.
OutcomesOf(round) == IF round = <<>> THEN 0 ELSE Len(round[1].outcomes)

\* No counter of s is above its value in t.
CountersAtMost(s, t) ==
    /\ s.usageCount <= t.usageCount
    /\ s.winCount <= t.winCount
    /\ s.lossCount <= t.lossCount
    /\ s.bustCount <= t.bustCount
    /\ s.totalWagered <= t.totalWagered
    /\ s.totalWon <= t.totalWon
    /\ \A tube \in Tubes : s.tubeHits[tube] <= t.tubeHits[tube]

\* C19 (statistics once per outcome): every step other than resetStats
\* raises the usageCount summed over all rules by the number of player
\* outcomes the step produced, each rule's by the outcomes of the players
\* it decided for, and lowers no counter of any rule; so the summed
\* usageCount is the number of outcomes produced.
C19_StatsOncePerOutcome ==
    [][lastOp' # "resetStats"
       => /\ TotalUsage(stats')
                = TotalUsage(stats)
                    + (IF lastOp' = "startRound" THEN 0
                       ELSE OutcomesOf(currentRound') - OutcomesOf(currentRound))
          /\ lastOp' = "resolveOutcomes"
                => \A id \in RuleIds :
                     stats'[id].usageCount
                        = stats[id].usageCount
                            + Resolved(currentRound'[1], id,
                                       {"win", "lose", "tie", "bust"})
          /\ \A id \in RuleIds : CountersAtMost(stats[id], stats'[id])]_vars

\* C19 witness: two rounds of two players resolved without a reset in
\* between, four usages counted, under more than one rule.
C19_Witness ==
    /\ lastOp = "resolveOutcomes"
    /\ Len(roundHistory) = 1
    /\ Len(currentRound[1].outcomes) = 2
    /\ TotalUsage(stats) = 4
    /\ \E id \in RuleIds : stats[id].usageCount \in 1..3

\* C20 (atomic round effects): a resolution abandoned after some but not
\* all players are resolved leaves the tube balances and the house ledger
\* as they were when the resolution began.
C20_AtomicRoundEffects ==
    lastOp = "resolveOutcomesThrew" =>
        /\ currentRound[1].tubeBalances = args.round.tubeBalances
        /\ ledger = args.ledger

\* The ledger half of C20: an abandoned resolution leaves the ledger as it
\* was.
LedgerUntouchedByResolve ==
    lastOp = "resolveOutcomesThrew" => ledger = args.ledger

\* A resolution abandoned at the second player after the first drained a
\* tube.
AbandonedAfterDrain ==
    /\ lastOp = "resolveOutcomesThrew"
    /\ Len(currentRound[1].outcomes) = 1
    /\ currentRound[1].outcomes[1].tubePayout > 0

\* ------------------------------------------------------------------------
\* Properties of the score and of the adjustment step
\* ------------------------------------------------------------------------

\* The score as the formula states it, in ten-thousandths: the exploit term
\* sums ev - maxExploitEV over the exploitable HTs above maxExploitEV.
ScoreFormula(metrics) ==
    LET o == DEFAULT_OBJECTIVE
    IN  o.weights.edgeDeviation * Abs(metrics.houseEdge - o.targetEdge)
        + o.weights.volatility * 100
            * (IF metrics.volatilityIndex > o.maxVolatility
               THEN metrics.volatilityIndex - o.maxVolatility ELSE 0)
        + o.weights.tubeDrain * 5
            * (IF DrainSum(metrics) > 6 THEN DrainSum(metrics) - 6 ELSE 0)
        + o.weights.exploitRisk
            * SumSeq([k \in 1..Len(metrics.exploitableHTs) |->
                IF metrics.exploitableHTs[k].ev > o.maxExploitEV
                THEN metrics.exploitableHTs[k].ev - o.maxExploitEV ELSE 0])

\* C13 (score formula): the score of the first pass, which is the best
\* score so far, equals w_edge |edge - targetEdge|
\* + w_vol max(0, volatility - maxVolatility)
\* + w_drain max(0, avgTubeDrain - 0.3) + w_exploit SUM (ev - maxExploitEV).
C13_ScoreFormula ==
    (lastOp = "iterate" /\ opt.iterations = 1)
        => opt.bestScore = Fin(ScoreFormula(opt.metrics[1]))

\* The score of C13 for metrics that report no exploit above maxExploitEV.
ScoreWithoutExploits ==
    (/\ lastOp = "iterate"
     /\ opt.iterations = 1
     /\ \A k \in 1..Len(opt.metrics[1].exploitableHTs) :
            opt.metrics[1].exploitableHTs[k].ev <= DEFAULT_OBJECTIVE.maxExploitEV)
        => opt.bestScore = Fin(ScoreFormula(opt.metrics[1]))

\* previous x (1 + learningRate x 10 x (targetEdge - edge)) clamped to
\* [0.5, 2.0], in hundredths.
ClampedMultiplier(previous, edge) ==
    LET product == (previous * (100 + (DEFAULT_OBJECTIVE.targetEdge - edge))) \div 100
    IN  IF (previous * (100 + (DEFAULT_OBJECTIVE.targetEdge - edge))) < 50 * 100
        THEN 50
        ELSE IF product >= 200 THEN 200 ELSE product

\* C14 (bust-penalty adjustment): after the adjustment step of a pass whose
\* metrics are not optimal the working configuration's bustPenaltyMultiplier
\* is its previous value x (1 + learningRate x 10 x (targetEdge - edge))
\* clamped to [0.5, 2.0], and so lies within [0.5, 2.0].
C14_BustPenaltyAdjustment ==
    [][(lastOp' = "iterate" /\ opt'.pc = "loop")
       => /\ opt'.config.bustPenaltyMultiplier
                = ClampedMultiplier(opt.config.bustPenaltyMultiplier,
                                    opt'.metrics[1].houseEdge)
          /\ opt'.config.bustPenaltyMultiplier \in 50..200]_vars

\* C14 for the passes whose edge is more than 0.01 off the target, and the
\* range for all.
AdjustedOutsideDeadZone ==
    [][(lastOp' = "iterate" /\ opt'.pc = "loop")
       => /\ Abs(DEFAULT_OBJECTIVE.targetEdge - opt'.metrics[1].houseEdge) > 1
                => opt'.config.bustPenaltyMultiplier
                    = ClampedMultiplier(opt.config.bustPenaltyMultiplier,
                                        opt'.metrics[1].houseEdge)
          /\ Abs(DEFAULT_OBJECTIVE.targetEdge - opt'.metrics[1].houseEdge) <= 1
                => opt'.config.bustPenaltyMultiplier
                    = opt.config.bustPenaltyMultiplier
          /\ opt'.config.bustPenaltyMultiplier \in 50..200]_vars

\* C15 (tube-initial adjustment): in the adjustment step each tube whose
\* drain rate is above 0.3 gets initial = floor(initial x (1 + 0.5 x rate))
\* and each other tube keeps its initial, whatever the other tubes' rates.
C15_TubeInitialAdjustment ==
    [][(lastOp' = "iterate" /\ opt'.pc = "loop")
       => \A t \in Tubes :
            opt'.config.tubes[t].initial =
                IF opt'.metrics[1].tubeDrainRates[t] >= 2
                THEN (opt.config.tubes[t].initial
                        * (8 + opt'.metrics[1].tubeDrainRates[t])) \div 8
                ELSE opt.config.tubes[t].initial]_vars

\* C15 for the passes whose average drain rate is above 0.3, and no change
\* of any tube in the other passes.
TubeInitialWhenAverageHigh ==
    [][(lastOp' = "iterate" /\ opt'.pc = "loop")
       => \A t \in Tubes :
            opt'.config.tubes[t].initial =
                IF DrainSum(opt'.metrics[1]) > 6
                    /\ opt'.metrics[1].tubeDrainRates[t] >= 2
                THEN (opt.config.tubes[t].initial
                        * (8 + opt'.metrics[1].tubeDrainRates[t])) \div 8
                ELSE opt.config.tubes[t].initial]_vars

\* C16 (refill-amount adjustment): in the adjustment step refillAmount
\* becomes min(5, refillAmount + 1) exactly when the average drain rate of
\* the five tubes is above 0.4, is unchanged otherwise, and an adjusted
\* refillAmount is at most 5.
C16_RefillAdjustment ==
    [][(lastOp' = "iterate" /\ opt'.pc = "loop")
       => /\ opt'.config.refillAmount =
                IF DrainSum(opt'.metrics[1]) > 8
                THEN (IF opt.config.refillAmount + 1 <= 5
                      THEN opt.config.refillAmount + 1 ELSE 5)
                ELSE opt.config.refillAmount
          /\ DrainSum(opt'.metrics[1]) > 8 => opt'.config.refillAmount <= 5]_vars

\* C16 witness: two passes with an average drain rate of 0.55 from a refill
\* amount of 4: the second adjustment is capped at 5.
C16_Witness ==
    /\ lastOp = "iterate"
    /\ opt.pc = "loop"
    /\ opt.iterations = 2
    /\ DrainSum(opt.metrics[1]) > 8
    /\ config.refillAmount = 4
    /\ opt.config.refillAmount = 5


\* C30 (optimal iteration): in an iteration whose metrics are optimal,
\* optimize changes neither its working configuration nor any enabled
\* flag; when the first iteration is optimal, optimize returns
\* iterations = 1 and recommendedConfig equal to the configuration it was
\* called with, every enabled flag as it was.
C30_OptimalIteration ==
    [][ /\ (lastOp' = "iterate" /\ isOptimal(opt'.metrics[1])) =>
              /\ opt'.config = opt.config
              /\ enabled' = enabled
        /\ (lastOp' = "optimized" /\ opt.iterations = 1
                /\ isOptimal(opt.metrics[1])) =>
              /\ opt'.result[1].iterations = 1
              /\ opt'.result[1].recommendedConfig = config
              /\ opt'.config = config
              /\ enabled' = [id \in RuleIds |-> TRUE] ]_vars

\* C30 witness: optimize returned after one iteration whose optimal metrics
\* report tube drain rates that a further pass would have adjusted for.
C30_Witness ==
    /\ lastOp = "optimized"
    /\ opt.iterations = 1
    /\ isOptimal(opt.metrics[1])
    /\ opt.metrics[1].tubeDrainRates = HighDrain
    /\ config.refillAmount = 4
    /\ opt.result[1].recommendedConfig = config
    /\ opt.result[1].iterations = 1

\* An optimal second iteration keeps the configuration the first one
\* adjusted.
OptimalAfterAdjustment ==
    /\ lastOp = "iterate"
    /\ opt.iterations = 2
    /\ opt.pc = "break"
    /\ opt.config # config
\* ------------------------------------------------------------------------
\* Properties of round processing and of the ledger analysis
\* ------------------------------------------------------------------------

\* The amounts of a list of records, and the payouts of the winning
\* outcomes with a payout above 0, in the order of the list.
AmountsOf(records) == [k \in 1..Len(records) |-> records[k].amount]
WinPayoutsOf(outcomes) ==
    LET wins == SelectSeq(outcomes, LAMBDA o : o.outcome = "win" /\ o.payout > 0)
    IN  [k \in 1..Len(wins) |-> wins[k].payout]

Reverse(q) == [k \in 1..Len(q) |-> q[Len(q) + 1 - k]]

\* The totals of a ledger.
TotalsOf(l) ==
    <<l.totalAnteCollected, l.totalPayoutsGiven, l.totalBustPenaltiesCollected,
      l.totalTubePayouts, l.netProfit, l.roundsPlayed>>

\* C21 (round processing): processRoundOutcomes records the ante, then the
\* tube payouts, then the bust penalties, then the non-tube win payouts,
\* and adds 1 to roundsPlayed; each total is the previous one plus the sum
\* of its amounts, and the totals are the same for the lists in another
\* order.
C21_RoundProcessing ==
    lastOp = "processRoundOutcomes" =>
        LET l == args.ledger
            tube == AmountsOf(args.tubePayouts)
            bust == AmountsOf(args.bustPenalties)
            wins == WinPayoutsOf(args.outcomes)
        IN  /\ ledger.totalAnteCollected
                    = l.totalAnteCollected + args.anteCollected
            /\ ledger.totalTubePayouts = l.totalTubePayouts + SumSeq(tube)
            /\ ledger.totalBustPenaltiesCollected
                    = l.totalBustPenaltiesCollected + SumSeq(bust)
            /\ ledger.totalPayoutsGiven
                    = l.totalPayoutsGiven + SumSeq(tube) + SumSeq(wins)
            /\ ledger.roundsPlayed = l.roundsPlayed + 1
            /\ ledger.anteHistory = Append(l.anteHistory, args.anteCollected)
            /\ ledger.payoutHistory = l.payoutHistory \o tube \o wins
            /\ ledger.bustHistory = l.bustHistory \o bust
            /\ TotalsOf(ledger)
                    = TotalsOf(processRoundOutcomes(l, Reverse(args.outcomes),
                                    Reverse(args.tubePayouts),
                                    Reverse(args.bustPenalties),
                                    args.anteCollected))

\* C21 witness: a round processed with two different tube payouts, a bust
\* penalty, an ante, and a regular win payout after an outcome that pays
\* nothing.
C21_Witness ==
    /\ lastOp = "processRoundOutcomes"
    /\ args.anteCollected > 0
    /\ Len(args.tubePayouts) = 2
    /\ args.tubePayouts[1].amount # args.tubePayouts[2].amount
    /\ Len(args.bustPenalties) = 1
    /\ Len(args.outcomes) = 2
    /\ args.outcomes[1].outcome = "lose"
    /\ args.outcomes[2].outcome = "win"
    /\ args.outcomes[2].payout > 0
    /\ ledger.roundsPlayed = 1


\* A history is continued: what it held is still there, in place.
Continues(before, after) ==
    /\ Len(before) <= Len(after)
    /\ SubSeq(after, 1, Len(before)) = before

HistoriesMatchTotals(l) ==
    /\ SumSeq(l.anteHistory) = l.totalAnteCollected
    /\ SumSeq(l.payoutHistory) = l.totalPayoutsGiven
    /\ SumSeq(l.bustHistory) = l.totalBustPenaltiesCollected
    /\ l.totalTubePayouts <= l.totalPayoutsGiven

NothingShrinks(before, after) ==
    /\ before.totalAnteCollected <= after.totalAnteCollected
    /\ before.totalPayoutsGiven <= after.totalPayoutsGiven
    /\ before.totalBustPenaltiesCollected <= after.totalBustPenaltiesCollected
    /\ before.totalTubePayouts <= after.totalTubePayouts
    /\ before.roundsPlayed <= after.roundsPlayed
    /\ Continues(before.anteHistory, after.anteHistory)
    /\ Continues(before.payoutHistory, after.payoutHistory)
    /\ Continues(before.bustHistory, after.bustHistory)

\* C37 (ledger histories match totals): in every ledger reachable through
\* the record functions with non-negative amounts, the sum of anteHistory
\* equals totalAnteCollected, the sum of payoutHistory equals
\* totalPayoutsGiven, the sum of bustHistory equals
\* totalBustPenaltiesCollected, totalTubePayouts <= totalPayoutsGiven, and
\* no total or history ever shrinks.
C37_HistoriesMatchTotals ==
    /\ []HistoriesMatchTotals(ledger)
    /\ [][NothingShrinks(ledger, ledger')]_vars

\* C37 witness: a ledger holding an ante of zero, a bust penalty, and both
\* a tube payout and a regular payout.
C37_Witness ==
    /\ ledger.totalTubePayouts > 0
    /\ ledger.totalTubePayouts < ledger.totalPayoutsGiven
    /\ Len(ledger.payoutHistory) >= 2
    /\ ledger.bustHistory # <<>>
    /\ \E k \in 1..Len(ledger.anteHistory) : ledger.anteHistory[k] = 0

\* ------------------------------------------------------------------------
\* Properties of the round methods (checked under SpecGame), continued
\* ------------------------------------------------------------------------

\* C23 (no active round): each of collectAntes, dealCards, applyHTDecisions,
\* executeDraw, evaluateHands, resolveOutcomes and completeRound, called
\* before any round was started, throws and leaves the ledger, the round
\* history and the rules' statistics unchanged.
C23_NoActiveRound ==
    [][ (currentRound = <<>> /\ lastOp' = "requireRound") =>
            /\ args'.fn \in RoundOps
            /\ ret' = Threw
            /\ ledger' = ledger
            /\ roundHistory' = roundHistory
            /\ stats' = stats
            /\ currentRound' = <<>> ]_vars

\* C23 witness: completeRound was called first on a new orchestrator.
C23_Witness ==
    /\ lastOp = "requireRound"
    /\ args.fn = "completeRound"
    /\ ret = Threw
    /\ currentRound = <<>>
    /\ roundHistory = <<>>

\* C26 (ante accounting): collectAntes debits exactly the ante from each
\* player and from the dealer and sets anteCollected and playPot to
\* ante x (playerCount + 1); completing the round increases the ledger's
\* totalAnteCollected by exactly that amount.
C26_AnteAccounting ==
    [][ /\ lastOp' = "collectAntes" =>
            LET before == currentRound[1]
                after == currentRound'[1]
            IN  /\ Len(after.participants) = config.playerCount
                /\ \A i \in 1..Len(after.participants) :
                      after.participants[i].credits
                          = before.participants[i].credits - config.ante
                /\ after.dealer.credits = before.dealer.credits - config.ante
                /\ after.anteCollected = config.ante * (config.playerCount + 1)
                /\ after.playPot = config.ante * (config.playerCount + 1)
        /\ lastOp' = "completeRound" =>
            ledger'.totalAnteCollected
                = ledger.totalAnteCollected
                    + config.ante * (config.playerCount + 1) ]_vars

\* C26 witness: two rounds completed, the ante of both in the ledger.
C26_Witness ==
    /\ lastOp = "completeRound"
    /\ Len(roundHistory) = 2
    /\ config.ante > 0
    /\ ledger.totalAnteCollected = 2 * config.ante * (config.playerCount + 1)
    /\ currentRound[1].dealer.credits < createDealer.credits

\* ------------------------------------------------------------------------
\* Properties of the Monte Carlo engine (checked under SpecMonteCarlo)
\* ------------------------------------------------------------------------

MonteCarloReturned == lastOp = "runMonteCarloReturned"

\* Every run reported the same edge (and there was a run).
SameEdge(edges) ==
    /\ edges # <<>>
    /\ \A i \in 1..Len(edges) : edges[i] = edges[1]

\* runMonteCarlo called the simulation function runs times, each time with
\* the configuration it was given.
CalledRunsTimes ==
    MonteCarloReturned =>
        /\ Len(args.calls) = args.runs
        /\ \A i \in 1..Len(args.calls) : args.calls[i] = args.config
        /\ config = args.config

\* isStable tells whether the returned standard deviation is below 0.01.
StableBelowOnePercent ==
    MonteCarloReturned =>
        (ret.isStable <=> FLess(ret.edgeStdDev, Dec(1, 100)))

\* The least and the greatest of equal edges are that edge, and the result
\* is stable.
SameEdgeExtremes ==
    (MonteCarloReturned /\ SameEdge(args.edges)) =>
        /\ ret.worstCase = args.edges[1]
        /\ ret.bestCase = args.edges[1]
        /\ ret.isStable

\* C24 (Monte Carlo statistics): runMonteCarlo calls the simulation
\* function exactly runs times, each with the same unmodified
\* configuration; isStable holds exactly when the standard deviation of the
\* edges is below 0.01; and when every run reports the same edge the
\* variance and the standard deviation are 0, meanEdge, worstCase and
\* bestCase are that edge, and isStable is true.
C24_MonteCarlo ==
    MonteCarloReturned =>
        /\ Len(args.calls) = args.runs
        /\ \A i \in 1..Len(args.calls) : args.calls[i] = args.config
        /\ ret.isStable <=> FLess(ret.edgeStdDev, Dec(1, 100))
        /\ SameEdge(args.edges) =>
              /\ ret.edgeVariance = FZero
              /\ ret.edgeStdDev = FZero
              /\ ret.meanEdge = args.edges[1]
              /\ ret.worstCase = args.edges[1]
              /\ ret.bestCase = args.edges[1]
              /\ ret.isStable

\* Three runs that each report 0.05: the mean of the three is not 0.05.
SameEdgeMeanDrifts ==
    /\ MonteCarloReturned
    /\ SameEdge(args.edges)
    /\ ret.meanEdge # args.edges[1]
    /\ ret.edgeVariance # FZero

\* ------------------------------------------------------------------------
\* Properties of the ledger analytics (checked under SpecAnalysis)
\* ------------------------------------------------------------------------

Analyzed == lastOp = "analyzeLedger"
TotalInput(l) == l.totalAnteCollected + l.totalBustPenaltiesCollected
\* What the house kept of its input.
Kept(l) == TotalInput(l) - l.totalPayoutsGiven

PayoutsWithoutInput ==
    /\ Analyzed
    /\ TotalInput(args.ledger) = 0
    /\ args.ledger.totalPayoutsGiven > 0
    /\ ret.houseEdge = FZero

\* C29 (health status): healthStatus is low_edge exactly when the house
\* edge is below 3%, high_edge exactly when it is above 7%, and optimal
\* otherwise, 3% and 7% included; isHealthy holds exactly when the status
\* is optimal. The edge is compared as the fraction kept / input.
C29_HealthStatus ==
    Analyzed =>
        LET input == TotalInput(args.ledger)
            kept == IF input = 0 THEN 0 ELSE Kept(args.ledger)
            scale == IF input = 0 THEN 1 ELSE input
        IN  /\ ret.healthStatus = "low_edge" <=> 100 * kept < 3 * scale
            /\ ret.healthStatus = "high_edge" <=> 100 * kept > 7 * scale
            /\ ret.healthStatus = "optimal" <=>
                    (3 * scale <= 100 * kept /\ 100 * kept <= 7 * scale)
            /\ ret.isHealthy <=> ret.healthStatus = "optimal"

\* C29 witness: an edge of exactly 3% is optimal and healthy.
C29_Witness ==
    /\ Analyzed
    /\ TotalInput(args.ledger) > 0
    /\ 100 * Kept(args.ledger) = 3 * TotalInput(args.ledger)
    /\ ret.healthStatus = "optimal"
    /\ ret.isHealthy

\* The three statuses and the upper end of the range are all met.
StatusSevenPercent ==
    /\ Analyzed
    /\ TotalInput(args.ledger) > 0
    /\ 100 * Kept(args.ledger) = 7 * TotalInput(args.ledger)
    /\ ret.healthStatus = "optimal"
StatusLow ==
    /\ Analyzed
    /\ 100 * Kept(args.ledger) = 2 * TotalInput(args.ledger)
    /\ TotalInput(args.ledger) > 0
    /\ ret.healthStatus = "low_edge"
StatusHigh ==
    /\ Analyzed
    /\ 100 * Kept(args.ledger) = 8 * TotalInput(args.ledger)
    /\ ret.healthStatus = "high_edge"

\* ------------------------------------------------------------------------
\* Properties of getExploitableHTs (checked under SpecExploit)
\* ------------------------------------------------------------------------

\* totalWon / totalWagered - 1 is above the threshold (in hundredths).
EVAbove(s, threshold) ==
    /\ s.totalWagered > 0
    /\ 100 * (s.totalWon - s.totalWagered) > threshold * s.totalWagered

\* The first EV is at least the second, as fractions.
EVAtLeast(a, b) == a.num * b.den >= b.num * a.den

\* C28 (exploitable rules): getExploitableHTs(threshold) returns exactly the
\* rules with usageCount > 100 whose EV, totalWon / totalWagered - 1, is
\* above the threshold, each once with its EV, in descending order of EV;
\* it changes no rule's statistics and no enabled flag.
C28_ExploitableHTs ==
    [][ lastOp' = "getExploitableHTs" =>
            LET list == ret'.list
                expected == { id \in RuleIds :
                                /\ stats[id].usageCount > 100
                                /\ EVAbove(stats[id], args'.threshold) }
            IN  /\ { list[k].htId : k \in 1..Len(list) } = expected
                /\ Len(list) = Cardinality(expected)
                /\ \A k \in 1..Len(list) :
                      list[k].ev = stats[list[k].htId].calculatedEV
                /\ \A k \in 1..(Len(list) - 1) :
                      EVAtLeast(list[k].ev, list[k + 1].ev)
                /\ stats' = stats
                /\ enabled' = enabled ]_vars

\* C28 witness: three rules returned, the one registered last first, while
\* a rule is disabled.
C28_Witness ==
    /\ lastOp = "getExploitableHTs"
    /\ Len(ret.list) = 3
    /\ ret.list[1].htId = "H1.HC"
    /\ ~EVAtLeast(ret.list[3].ev, ret.list[2].ev)
    /\ Disabled(enabled) # {}

\* A rule at exactly 100 uses, or at an EV equal to the threshold, is left
\* out.
BoundaryLeftOut ==
    /\ lastOp = "getExploitableHTs"
    /\ args.threshold = 2
    /\ stats["H1.HC"] = Played(60, 40)
    /\ stats["H2.1P"] = Played(102, 98)
    /\ Len(ret.list) = 1

\* ------------------------------------------------------------------------
\* Properties of the optimizer's best tracking
\* ------------------------------------------------------------------------

\* The least score on record, and the first iteration that has it.
MinScore(history) ==
    CHOOSE s \in { history[k].score : k \in 1..Len(history) } :
        \A k \in 1..Len(history) : s <= history[k].score

EarliestWith(history, s) ==
    CHOOSE k \in 1..Len(history) :
        /\ history[k].score = s
        /\ \A j \in 1..(k - 1) : history[j].score # s

Returned == opt.pc = "done" /\ args.fn = "optimize"

\* C31 (best configuration): optimize returns as score the minimum score
\* over all iterations it ran, and as recommendedConfig and metrics the
\* configuration and the metrics of the earliest iteration that achieved
\* that minimum.
C31_BestConfiguration ==
    Returned =>
        LET history == args.history
            result == opt.result[1]
            best == history[EarliestWith(history, MinScore(history))]
        IN  /\ result.iterations = Len(history)
            /\ result.score = Fin(MinScore(history))
            /\ result.recommendedConfig = best.config
            /\ result.metrics = best.metrics

\* C31 witness: optimize returned after three iterations of which the first
\* two had the minimum score, on different configurations, and the third a
\* higher one; it returned the first one's configuration.
C31_Witness ==
    /\ Returned
    /\ Len(args.history) = 3
    /\ args.history[1].score = args.history[2].score
    /\ args.history[1].config # args.history[2].config
    /\ args.history[3].score > args.history[1].score
    /\ opt.result[1].recommendedConfig = args.history[1].config
    /\ opt.result[1].score = Fin(args.history[1].score)

\* The minimum was reached by a later iteration than the first.
BestIsLater ==
    /\ Returned
    /\ Len(args.history) = 3
    /\ EarliestWith(args.history, MinScore(args.history)) = 2
    /\ opt.result[1].recommendedConfig = args.history[2].config
    /\ args.history[2].config # args.history[1].config

\* C34 (early stop): if optimize stops before reaching the 100-iteration
\* cap, because some iteration's metrics satisfied the optimal predicate,
\* the returned result has isOptimal = true.
C34_EarlyStopOptimal ==
    (Returned /\ opt.result[1].iterations < maxIterations)
        => opt.result[1].isOptimal

\* optimize stops before the cap exactly on an iteration with optimal
\* metrics, and isOptimal is the optimal predicate of the returned metrics.
StopsOnOptimal ==
    (Returned /\ opt.result[1].iterations < maxIterations) =>
        /\ isOptimal(args.history[Len(args.history)].metrics)
        /\ opt.result[1].isOptimal = isOptimal(opt.result[1].metrics)

\* The early stop returned the metrics of an earlier iteration, which had
\* the lower score and were not optimal.
EarlierBestNotOptimal ==
    /\ Returned
    /\ opt.result[1].iterations = 2
    /\ opt.result[1].metrics = args.history[1].metrics
    /\ args.history[1].score < args.history[2].score
    /\ ~opt.result[1].isOptimal

\* ------------------------------------------------------------------------
\* Properties of the events of a full round
\* ------------------------------------------------------------------------

\* The phases' events in the order of the phases.
PhaseEvents ==
    << "round_start", "ante_collected", "cards_dealt", "ht_decided",
       "cards_drawn", "hands_evaluated", "showdown", "round_complete" >>

\* Where events of a type stand among the events kept.
PositionsOf(events, type) == { k \in 1..Len(events) : events[k].type = type }
PositionOf(events, type) == CHOOSE k \in PositionsOf(events, type) : TRUE

FullRoundRan == lastOp = "executeFullRound"

\* C32 (event ordering in a full round): round_start is emitted first, then
\* ante_collected, cards_dealt, ht_decided, cards_drawn, hands_evaluated
\* and showdown in that order, round_complete last; every tube_drained and
\* bust_triggered event falls between hands_evaluated and round_complete;
\* every event of the round carries the round's number.
C32_EventOrdering ==
    FullRoundRan =>
        LET events == args.events
        IN  /\ \A j \in 1..Len(PhaseEvents) :
                    Cardinality(PositionsOf(events, PhaseEvents[j])) = 1
            /\ \A j \in 1..(Len(PhaseEvents) - 1) :
                    PositionOf(events, PhaseEvents[j])
                        < PositionOf(events, PhaseEvents[j + 1])
            /\ events[1].type = "round_start"
            /\ events[Len(events)].type = "round_complete"
            /\ \A k \in 1..Len(events) :
                    events[k].type \in {"tube_drained", "bust_triggered"} =>
                        /\ PositionOf(events, "hands_evaluated") < k
                        /\ k < PositionOf(events, "round_complete")
            /\ \A k \in 1..Len(events) :
                    events[k].roundNumber = currentRound[1].roundNumber

\* C32 witness: the second full round, in which a tube was drained, a bust
\* triggered and a tube refilled.
C32_Witness ==
    /\ FullRoundRan
    /\ currentRound[1].roundNumber = 2
    /\ PositionsOf(args.events, "tube_drained") # {}
    /\ PositionsOf(args.events, "bust_triggered") # {}
    /\ PositionsOf(args.events, "tube_refilled") # {}

\* The tube events fall before showdown, one for each tube payout and each
\* bust penalty of the round.
TubeEventsBeforeShowdown ==
    FullRoundRan =>
        /\ \A k \in 1..Len(args.events) :
                args.events[k].type \in {"tube_drained", "bust_triggered"} =>
                    k < PositionOf(args.events, "showdown")
        /\ Cardinality(PositionsOf(args.events, "tube_drained"))
                = Len(currentRound[1].tubePayouts)
        /\ Cardinality(PositionsOf(args.events, "bust_triggered"))
                = Len(currentRound[1].bustPenalties)

\* ------------------------------------------------------------------------
\* Properties of rounds under repeated phase calls
\* ------------------------------------------------------------------------

\* The outcome records a round holds for a participant, and the entries of
\* the round history with a round number.
OutcomeRecordsOf(r, id) ==
    Cardinality({ k \in 1..Len(r.outcomes) : r.outcomes[k].participantId = id })
HistoryEntriesOf(n) ==
    Cardinality({ k \in 1..Len(roundHistory) : roundHistory[k].roundNumber = n })

\* C35 (once per round): under any sequence of calls of the phase methods,
\* each started round yields at most one outcome record per player and is
\* folded into the house ledger and the round history at most once, so
\* roundsPlayed never exceeds the number of rounds started.
C35_OncePerRound ==
    /\ currentRound # <<>> =>
            \A i \in 1..Len(currentRound[1].participants) :
                OutcomeRecordsOf(currentRound[1],
                                 currentRound[1].participants[i].id) <= 1
    /\ \A n \in 1..roundNumber : HistoryEntriesOf(n) <= 1
    /\ ledger.roundsPlayed <= roundNumber

\* One started round, resolved twice: two outcome records for a player and
\* the deciding rules' statistics counted twice.
ResolvedTwice ==
    /\ roundNumber = 1
    /\ lastOp = "resolveOutcomes"
    /\ OutcomeRecordsOf(currentRound[1], "player_1") = 2
    /\ TotalUsage(stats) = 2 * PlayerCount

\* One started round, completed twice: two rounds played in the ledger,
\* the ante collected twice, two entries in the history.
CompletedTwice ==
    /\ roundNumber = 1
    /\ lastOp = "completeRound"
    /\ ledger.roundsPlayed = 2
    /\ ledger.totalAnteCollected = 2 * currentRound[1].anteCollected
    /\ HistoryEntriesOf(1) = 2

\* Every entry of the history and every round played belongs to a round
\* that was started.
HistoryOfStartedRounds ==
    /\ \A k \in 1..Len(roundHistory) :
            roundHistory[k].roundNumber \in 1..roundNumber
    /\ ledger.roundsPlayed = Len(roundHistory)

\* ------------------------------------------------------------------------
\* Properties of the tubes within a round
\* ------------------------------------------------------------------------

\* The tube payouts a round has recorded for a tube, and their sum.
PayoutsFrom(r, t) == SelectSeq(r.tubePayouts, LAMBDA rec : rec.tubeType = t)
PaidFrom(r, t) ==
    SumSeq([k \in 1..Len(PayoutsFrom(r, t)) |-> PayoutsFrom(r, t)[k].amount])

\* The balance a tube had when the round was started.
StartBalance(t) == config.tubes[t].initial

\* C36 (per-round tube conservation): in every state of a round before its
\* refill pass, each tube's balance at round start equals its balance plus
\* the sum of the tube payouts recorded for it in the round, so the total
\* paid out of a tube in a round never exceeds its starting balance, even
\* when several players win the same tube rank.
C36_TubeConservation ==
    (currentRound # <<>> /\ currentRound[1].phase # "complete") =>
        \A t \in Tubes :
            /\ StartBalance(t)
                    = currentRound[1].tubeBalances[t] + PaidFrom(currentRound[1], t)
            /\ PaidFrom(currentRound[1], t) <= StartBalance(t)
            /\ \A k \in 1..Len(currentRound[1].tubePayouts) :
                    currentRound[1].tubePayouts[k].amount >= 0

\* C36 witness: a resolved round, before its refill pass, in which two
\* players were paid from the same tube, which is not empty after them.
C36_Witness ==
    /\ InPhase("showdown")
    /\ lastOp = "resolveOutcomes"
    /\ \E t \in Tubes :
            /\ Len(PayoutsFrom(currentRound[1], t)) = 2
            /\ PayoutsFrom(currentRound[1], t)[1].participantId
                    # PayoutsFrom(currentRound[1], t)[2].participantId
            /\ PayoutsFrom(currentRound[1], t)[2].amount > 0
            /\ currentRound[1].tubeBalances[t] > 0

\* Two winners of one tube rank of which the first emptied the tube: one
\* payout of the whole starting balance, the second winner busted.
SecondWinnerMetEmptyTube ==
    /\ InPhase("showdown")
    /\ lastOp = "resolveOutcomes"
    /\ \E t \in Tubes :
            /\ Len(PayoutsFrom(currentRound[1], t)) = 1
            /\ PaidFrom(currentRound[1], t) = StartBalance(t)
            /\ Len(currentRound[1].bustPenalties) = 1

\* ------------------------------------------------------------------------
\* Properties of the rule statistics
\* ------------------------------------------------------------------------

\* C38 (usage count): for every rule, in every state reachable through
\* recordOutcome and resetStats, usageCount = winCount + lossCount
\* + bustCount.
C38_UsageCount ==
    \A id \in RuleIds :
        stats[id].usageCount
            = stats[id].winCount + stats[id].lossCount + stats[id].bustCount

\* C38 witness: statistics recorded after a reset, holding a bust and a
\* loss, in a round with a tie.
C38_Witness ==
    /\ lastOp = "resolveOutcomes"
    /\ Len(roundHistory) = 1
    /\ TotalUsage(stats) = PlayerCount
    /\ \E id \in RuleIds : stats[id].bustCount = 1
    /\ \E id \in RuleIds : stats[id].winCount = 1

\* A tie is counted as a win of the deciding rule.
TieCountedAsWin ==
    /\ lastOp = "resolveOutcomes"
    /\ Len(roundHistory) = 0
    /\ \E k \in 1..Len(currentRound[1].outcomes) :
            currentRound[1].outcomes[k].outcome = "tie"
    /\ TotalUsage(stats) = PlayerCount
    /\ \A id \in RuleIds : stats[id].usageCount = stats[id].winCount

\* The rule that decided for the participant with identifier pid.
RuleOf(r, pid) ==
    LET p == CHOOSE q \in Range(r.participants) : q.id = pid
    IN  IF p.htDecision.kind = "decision" THEN p.htDecision.htId ELSE "H0.DRAW5"

\* The outcomes of round r that are a win of a hand decided by rule id
\* with a payout drawn from tube t.
PaidWinsOf(r, id, t) ==
    {k \in 1..Len(r.outcomes) :
        /\ r.outcomes[k].outcome = "win"
        /\ handRankToTube(r.outcomes[k].handRank) = t
        /\ RuleOf(r, r.outcomes[k].participantId) = id
        /\ \E j \in 1..Len(r.tubePayouts) :
                /\ r.tubePayouts[j].tubeType = t
                /\ r.tubePayouts[j].participantId = r.outcomes[k].participantId}

\* C39 (tube hits): a step raises a rule's tubeHits for tube T by no more
\* than the number of outcomes it records that are a win of that rule with
\* a payout from T; losing, tied and busted outcomes raise no tube hit
\* count.
C39_TubeHitsOnlyOnPayout ==
    [][\A id \in RuleIds : \A t \in Tubes :
          stats'[id].tubeHits[t] > stats[id].tubeHits[t]
              => /\ lastOp' = "resolveOutcomes"
                 /\ stats'[id].tubeHits[t] - stats[id].tubeHits[t]
                       <= Cardinality(PaidWinsOf(currentRound'[1], id, t))]_vars

\* A tube hit counted for a round none of whose outcomes is a win.
HitWithoutWin ==
    /\ lastOp = "resolveOutcomes"
    /\ Len(roundHistory) = 0
    /\ \E id \in RuleIds : \E t \in Tubes : stats[id].tubeHits[t] > 0
    /\ \A k \in 1..Len(currentRound[1].outcomes) :
            currentRound[1].outcomes[k].outcome \in {"lose", "tie"}

\* A tube hit counted for a bust: the tube paid one participant and the
\* hits on it are two.
HitOnBust ==
    /\ lastOp = "resolveOutcomes"
    /\ Len(roundHistory) = 0
    /\ \E t \in Tubes :
            /\ Len(PayoutsFrom(currentRound[1], t)) = 1
            /\ \E k \in 1..Len(currentRound[1].outcomes) :
                    /\ currentRound[1].outcomes[k].outcome = "bust"
                    /\ handRankToTube(currentRound[1].outcomes[k].handRank) = t
            /\ \E id \in RuleIds : stats[id].tubeHits[t] = 2

\* ------------------------------------------------------------------------
\* Properties of the game page
\* ------------------------------------------------------------------------

\* No main action and nothing pending: the panel renders no enabled main
\* button and no timeout is set.
DeadEnd ==
    /\ ~\E label \in {"Deal", "Draw", "New Hand"} : PanelOffers(label)
    /\ args.timers = 0

\* C40 (UI progress): after the Deal handler runs the panel offers the Draw
\* action; no phase the handlers reach is a dead end without an enabled
\* main action; and after a round completes the panel eventually offers
\* Deal again.
C40_UIProgress ==
    /\ [](lastOp = "handleDeal" => PanelOffers("Draw"))
    /\ []~DeadEnd
    /\ (InPhase("complete") ~> PanelOffers("Deal"))

\* The round is dealt from the panel's Deal button and the panel renders
\* no main action for it.
DeadEndAfterDeal ==
    /\ lastOp = "handleDeal"
    /\ args.byPanel
    /\ PhaseProp = "deal"
    /\ MainAction = "none"
    /\ DeadEnd

\* New Hand leaves the round complete: the panel offers New Hand again.
NewHandOffersNewHand ==
    /\ lastOp = "handleNewHand"
    /\ PhaseProp = "complete"
    /\ PanelOffers("New Hand")
    /\ ~PanelOffers("Deal")

\* Through the buttons the panel offers, the page gets no further than the
\* first deal.
PanelDrivenStopsAtDeal ==
    args.byPanel =>
        \/ currentRound = <<>>
        \/ roundNumber = 1 /\ PhaseProp = "deal"

\* Once a round is started, the panel never offers Deal again.
DealOfferedOnlyBeforeFirstRound ==
    PanelOffers("Deal") => currentRound = <<>>
====
